---------------------------- MODULE Spec2Model ----------------------------
(***************************************************************************)
(* simple-log-analyzer: the per-vendor line parsers (parsers/*.py), the    *)
(* ParseStats counters (parsers/__init__.py) and the aggregation functions *)
(* of cli.py, as state machines.                                           *)
(*                                                                         *)
(*   Spec     parse runs: load_dataframe of the four parsers, line by line *)
(*            over one file, two runs side by side.                        *)
(*   SpecAgg  the aggregation functions of cli.py applied to tables.       *)
(*   SpecRun  one command (run_<vendor>_analysis): parse, exit on zero     *)
(*            records, aggregations, report, print or export.              *)
(*   SpecLine one pass of a parser's loop body over the text of one line:  *)
(*            patterns' groups, field extraction, level and category.      *)
(***************************************************************************)
EXTENDS Integers, Sequences, FiniteSets, TLC

\* Longest file (in lines) a parse run reads.
MaxLines == 2

\* Most rows of a table handed to the aggregation functions.
MaxRows == 3

\* The two parse runs that are followed side by side.
Runs == {"A", "B"}

\* The four parsers of parsers/*.py.
Variants == {"palo", "unifi", "watchguard", "meraki"}

(***************************************************************************)
(* Lines.  A file is a sequence of lines, each one of the sample lines     *)
(* below, named by a short tag.  Line[tag] is what the parsers' conditions *)
(* and patterns look at:                                                   *)
(*   empty     the line is "" once the trailing newline is stripped        *)
(*   first     first character once leading whitespace is stripped         *)
(*   prefix    the line starts with "Mon d hh:mm:ss host "                 *)
(*   body      the grammar of what follows the prefix                      *)
(*   severity  the severity field of a CEF body                            *)
(*   dport     the dport=... pair of a Meraki body, where it has one       *)
(*   epoch     the timestamp field of a Meraki body                        *)
(*   nbytes    bytes of the line in the file, newline included             *)
(*   nchars    len(raw_line): characters of the decoded line               *)
(***************************************************************************)
Line ==
  [ \* "\n"
    blank |->
      [empty |-> TRUE, first |-> "", prefix |-> FALSE, body |-> "none",
       severity |-> "", epoch |-> "", nbytes |-> 1, nchars |-> 1],
    \* "  {"name": "cafe"},\n" with an acute accent on the e (2 bytes in UTF-8)
    json |->
      [empty |-> FALSE, first |-> "{", prefix |-> FALSE, body |-> "none",
       severity |-> "", epoch |-> "", nbytes |-> 21, nchars |-> 20],
    \* "Nov  5 00:00:04 fw1 1,2025/11/05 00:00:04,<one field of 140000 characters>\n"
    bigfield |->
      [empty |-> FALSE, first |-> "N", prefix |-> TRUE, body |-> "bigfield",
       severity |-> "", epoch |-> "", nbytes |-> 140043, nchars |-> 140043],
    \* "Nov  5 00:00:04 10.0.0.1 CEF:0|Ubiquiti|UniFi|9.0|201|Threat Detected|7|src=10.0.0.9\n"
    cef7 |->
      [empty |-> FALSE, first |-> "N", prefix |-> TRUE, body |-> "cef",
       severity |-> "7", epoch |-> "", nbytes |-> 85, nchars |-> 85],
    \* "Nov  5 00:00:04 10.0.0.1 CEF:0|Ubiquiti|UniFi|9.0|201|Threat Detected|High|src=10.0.0.9\n"
    cefHigh |->
      [empty |-> FALSE, first |-> "N", prefix |-> TRUE, body |-> "cef",
       severity |-> "High", epoch |-> "", nbytes |-> 88, nchars |-> 88],
    \* "Nov  5 00:00:04 10.0.0.1 UniFi-Express systemd[1]: Started Session 4.\n"
    proc |->
      [empty |-> FALSE, first |-> "N", prefix |-> TRUE, body |-> "proc",
       severity |-> "", epoch |-> "", nbytes |-> 70, nchars |-> 70],
    \* "Nov  5 00:00:03 83.206.233.205 801304C6AA57D M370 (2025-11-05T00:00:03) loggerd[2545]: msg_id="3D01-0003" Archived\n"
    wg |->
      [empty |-> FALSE, first |-> "N", prefix |-> TRUE, body |-> "wg",
       severity |-> "", epoch |-> "", nbytes |-> 115, nchars |-> 115],
    \* "Nov  5 00:00:04 90.102.85.18 1 1762300804.143040390 ROUTER ip_flow_end src=10.10.0.102 dst=35.153.85.208 protocol=6\n"
    meraki |->
      [empty |-> FALSE, first |-> "N", prefix |-> TRUE, body |-> "meraki",
       severity |-> "", epoch |-> "1762300804.143040390", nbytes |-> 116, nchars |-> 116],
    \* the same line with the timestamp field 1.2.3
    merakiDots |->
      [empty |-> FALSE, first |-> "N", prefix |-> TRUE, body |-> "meraki",
       severity |-> "", epoch |-> "1.2.3", nbytes |-> 101, nchars |-> 101],
    \* the same line with a timestamp field of thirty digits
    merakiHuge |->
      [empty |-> FALSE, first |-> "N", prefix |-> TRUE, body |-> "meraki",
       severity |-> "", epoch |-> "111111111111111111111111111111",
       nbytes |-> 126, nchars |-> 126],
    \* the same line with " dport=0" after protocol=6
    merakiPort0 |->
      [empty |-> FALSE, first |-> "N", prefix |-> TRUE, body |-> "meraki",
       severity |-> "", epoch |-> "1762300804.143040390", dport |-> "0",
       nbytes |-> 124, nchars |-> 124] ]

LineSamples == DOMAIN Line

RECURSIVE SeqsUpTo(_, _)
SeqsUpTo(S, n) ==
  IF n = 0 THEN { << >> }
  ELSE LET shorter == SeqsUpTo(S, n - 1)
       IN  shorter \cup { Append(s, x) : s \in { t \in shorter : Len(t) = n - 1 }, x \in S }

\* One line of each grammar and outcome, for the runs followed side by side.
GrammarSamples == LineSamples \ {"merakiDots", "merakiHuge", "merakiPort0"}

Files == SeqsUpTo(GrammarSamples, MaxLines)

\* The files a command is run on: every sample line.
RunFiles == SeqsUpTo(LineSamples, MaxLines)

RECURSIVE SumBytes(_)
SumBytes(f) == IF f = << >> THEN 0 ELSE Line[Head(f)].nbytes + SumBytes(Tail(f))

(***************************************************************************)
(* ParseStats (parsers/__init__.py).  rejected is a dict: a function whose *)
(* domain is the set of reasons seen so far.  log is a history of the      *)
(* calls made on the object, in order; the program does not keep it.       *)
(***************************************************************************)
NewParseStats ==
  [total_lines |-> 0, parsed |-> 0, rejected |-> [k \in {} |-> 0], log |-> << >>]

note_success(s) ==
  [s EXCEPT !.total_lines = @ + 1, !.parsed = @ + 1, !.log = Append(@, "parsed")]

\* note_failure that records the reason without counting repeats of it.
note_failure_overwrites(s, reason) ==
  [s EXCEPT !.total_lines = @ + 1,
            !.rejected = [k \in DOMAIN s.rejected \cup {reason} |->
                            IF k = reason THEN 1 ELSE s.rejected[k]],
            !.log = Append(@, reason)]

note_failure(s, reason) ==
  LET had == IF reason \in DOMAIN s.rejected THEN s.rejected
             ELSE [k \in DOMAIN s.rejected \cup {reason} |->
                     IF k = reason THEN 0 ELSE s.rejected[k]]
  IN  [s EXCEPT !.total_lines = @ + 1,
                !.rejected = [k \in DOMAIN had |-> IF k = reason THEN had[k] + 1 ELSE had[k]],
                !.log = Append(@, reason)]

RECURSIVE SumOver(_, _)
SumOver(f, keys) ==
  IF keys = {} THEN 0
  ELSE LET k == CHOOSE x \in keys : TRUE IN f[k] + SumOver(f, keys \ {k})

RejectedTotal(s) == SumOver(s.rejected, DOMAIN s.rejected)

(***************************************************************************)
(* Text.  A str is a TLA+ string; the str methods and re scans the parsers *)
(* call are computed character by character.  Letters are the ASCII        *)
(* letters, whitespace is the space and the tab.                           *)
(***************************************************************************)
UpperLetters == "ABCDEFGHIJKLMNOPQRSTUVWXYZ"

LowerLetters == "abcdefghijklmnopqrstuvwxyz"

DigitChars == "0123456789"

CharAt(text, i) == SubSeq(text, i, i)

CharsOf(text) == { CharAt(text, i) : i \in 1..Len(text) }

PlaceIn(text, c) == CHOOSE i \in 1..Len(text) : CharAt(text, i) = c

\* str.lower()
LowerChar(c) ==
  IF c \in CharsOf(UpperLetters) THEN CharAt(LowerLetters, PlaceIn(UpperLetters, c)) ELSE c

RECURSIVE Lower(_)
Lower(text) ==
  IF text = "" THEN "" ELSE LowerChar(CharAt(text, 1)) \o Lower(SubSeq(text, 2, Len(text)))

\* "word in text"
Contains(text, word) ==
  \E i \in 1..(Len(text) - Len(word) + 1) : SubSeq(text, i, i + Len(word) - 1) = word

\* str.startswith(prefix)
StartsWith(text, prefix) ==
  Len(prefix) <= Len(text) /\ SubSeq(text, 1, Len(prefix)) = prefix

\* \s of re, str.isspace()
IsSpace(c) == c \in {" ", "\t"}

\* \w of re
IsWordChar(c) ==
  c \in CharsOf(UpperLetters) \cup CharsOf(LowerLetters) \cup CharsOf(DigitChars) \cup {"_"}

\* The places of text that hold something else than whitespace.
Inked(text) == { i \in 1..Len(text) : ~IsSpace(CharAt(text, i)) }

Least(S) == CHOOSE x \in S : \A y \in S : x <= y

Greatest(S) == CHOOSE x \in S : \A y \in S : x >= y

\* str.lstrip()
LStrip(text) ==
  IF Inked(text) = {} THEN "" ELSE SubSeq(text, Least(Inked(text)), Len(text))

\* str.strip()
Strip(text) ==
  IF Inked(text) = {} THEN ""
  ELSE SubSeq(text, Least(Inked(text)), Greatest(Inked(text)))

\* sep.join(parts), by halves
RECURSIVE Join(_, _)
Join(parts, sep) ==
  IF parts = << >> THEN ""
  ELSE IF Len(parts) = 1 THEN parts[1]
  ELSE LET half == Len(parts) \div 2
       IN  Join(SubSeq(parts, 1, half), sep) \o sep
             \o Join(SubSeq(parts, half + 1, Len(parts)), sep)

\* The digits of an int() literal: digits, single underscores between them.
IsDigitRun(text) ==
  /\ text # ""
  /\ \A i \in 1..Len(text) : CharAt(text, i) \in CharsOf(DigitChars) \cup {"_"}
  /\ CharAt(text, 1) # "_" /\ CharAt(text, Len(text)) # "_"
  /\ ~Contains(text, "__")

\* The literal of int(text) without its sign.
Unsigned(text) ==
  IF text # "" /\ CharAt(text, 1) \in {"+", "-"} THEN SubSeq(text, 2, Len(text)) ELSE text

RECURSIVE DigitsValue(_, _)
DigitsValue(text, acc) ==
  IF text = "" THEN acc
  ELSE DigitsValue(SubSeq(text, 2, Len(text)),
                   IF CharAt(text, 1) = "_" THEN acc
                   ELSE 10 * acc + (PlaceIn(DigitChars, CharAt(text, 1)) - 1))

\* str(n) of an int n >= 0
RECURSIVE IntText(_)
IntText(n) ==
  IF n < 10 THEN CharAt(DigitChars, n + 1)
  ELSE IntText(n \div 10) \o CharAt(DigitChars, (n % 10) + 1)

(***************************************************************************)
(* The patterns of the four parsers, as predicates on a line.              *)
(***************************************************************************)
\* palo_alto.py SYSLOG_PREFIX: only the month/day/time/host prefix.
SYSLOG_PREFIX(l) == Line[l].prefix

\* csv.reader raises csv.Error on a field above the field size limit.
CsvError(l) == Line[l].body = "bigfield"

\* unifi.py: a line whose stripped text starts with one of { } " ] [
JsonLike(l) == Line[l].first \in {"{", "}", "\"", "]", "["}

CEF_PATTERN(l) == Line[l].prefix /\ Line[l].body = "cef"

SYSLOG_PATTERN(l) == Line[l].prefix /\ Line[l].body = "proc"

WATCHGUARD_PATTERN(l) == Line[l].prefix /\ Line[l].body = "wg"

MERAKI_PATTERN(l) == Line[l].prefix /\ Line[l].body = "meraki"

\* int(text): whitespace around, an optional sign, decimal digits; ValueError
\* on any other text.
IsDecimal(text) == IsDigitRun(Unsigned(Strip(text)))

IntOf(text) ==
  LET literal == Strip(text)
      value == DigitsValue(Unsigned(literal), 0)
  IN  IF CharAt(literal, 1) = "-" THEN 0 - value ELSE value

(***************************************************************************)
(* One iteration of a parser's loop, after the progress callback: what the *)
(* line gives.  kind is "record" (yield), "reject" (note_failure and       *)
(* continue) or "raise" (an exception leaves parse).  A record holds the   *)
(* line it came from and the fields the reports group by; a field of the   *)
(* schema that the record does not hold is None.                           *)
(***************************************************************************)
Reject(reason) == [kind |-> "reject", reason |-> reason]

Yield(record) == [kind |-> "record", record |-> record]

Raise(what) == [kind |-> "raise", what |-> what]

\* The Palo Alto loop body without its test for an empty line.
PaloAltoLineNoEmptyCheck(l, n) ==
  IF ~SYSLOG_PREFIX(l) THEN Reject("missing-prefix")
  ELSE IF CsvError(l) THEN Reject("csv-error: field larger than field limit (131072)")
  ELSE Yield([lineno |-> n, line |-> l])

PaloAltoLine(l, n) ==
  IF Line[l].empty THEN Reject("empty")
  ELSE IF ~SYSLOG_PREFIX(l) THEN Reject("missing-prefix")
  ELSE IF CsvError(l) THEN Reject("csv-error: field larger than field limit (131072)")
  ELSE Yield([lineno |-> n, line |-> l])

UniFiLine(l, n) ==
  IF Line[l].empty THEN Reject("empty")
  ELSE IF JsonLike(l) THEN Reject("json-data")
  ELSE IF CEF_PATTERN(l) THEN
    IF ~IsDecimal(Line[l].severity) THEN Raise("ValueError")
    ELSE Yield([lineno |-> n, line |-> l, hostname |-> "CEF",
                process |-> "unifi-security",
                log_level |-> IF IntOf(Line[l].severity) >= 5 THEN "warning" ELSE "info",
                category |-> "unifi-security"])
  ELSE IF ~SYSLOG_PATTERN(l) THEN Reject("format-mismatch")
  ELSE Yield([lineno |-> n, line |-> l, hostname |-> "UniFi-Express",
              process |-> "systemd", log_level |-> "info", category |-> "system"])

WatchGuardLine(l, n) ==
  IF Line[l].empty THEN Reject("empty")
  ELSE IF ~WATCHGUARD_PATTERN(l) THEN Reject("format-mismatch")
  ELSE Yield([lineno |-> n, line |-> l, device_name |-> "M370",
              iso_timestamp |-> "2025-11-05T00:00:03", process |-> "loggerd",
              msg_id |-> "3D01-0003", log_level |-> "info", category |-> "system"])

MerakiLine(l, n) ==
  IF Line[l].empty THEN Reject("empty")
  ELSE IF ~MERAKI_PATTERN(l) THEN Reject("format-mismatch")
  ELSE IF "dport" \in DOMAIN Line[l] THEN
    Yield([lineno |-> n, line |-> l, epoch_timestamp |-> Line[l].epoch,
           event_type |-> "ip_flow_end", log_level |-> "info",
           category |-> "network-flow", src |-> "10.10.0.102",
           dst |-> "35.153.85.208", protocol |-> "6", dport |-> Line[l].dport])
  ELSE Yield([lineno |-> n, line |-> l, epoch_timestamp |-> Line[l].epoch,
              event_type |-> "ip_flow_end", log_level |-> "info",
              category |-> "network-flow", src |-> "10.10.0.102",
              dst |-> "35.153.85.208", protocol |-> "6"])

(***************************************************************************)
(* State of the parse runs.                                                *)
(***************************************************************************)
VARIABLES
  file,      \* the lines of the input file
  variant,   \* variant[r]: the parser run r uses
  pc,        \* pc[r]: "idle", "parsing", "returned" (load_dataframe returned)
             \*        or "raised" (an exception left load_dataframe)
  pos,       \* pos[r]: lines read so far
  callback,  \* callback[r]: whether parse was given advance_progress
  advanced,  \* advanced[r]: sum of the amounts passed to advance_progress
  stats,     \* stats[r]: the run's ParseStats
  rows,      \* rows[r]: the records yielded so far
  frame,     \* frame[r]: the table load_dataframe returned
  trace      \* trace[r]: what the run did so far, in order (a history)

parseVars == <<file, variant, pc, pos, callback, advanced, stats, rows, frame, trace>>

\* The aggregation calls: the table handed to a collector, the call made
\* and what it returned.
VARIABLES table, call, result

aggVars == <<table, call, result>>

\* One command (run_<vendor>_analysis): where it is, its options, the results
\* collected so far, the ReportData and what came out.
VARIABLES phase, options, sections, report, output

runVars == <<phase, options, sections, report, output>>

\* One pass of a parser's loop body over one line: the line read and what
\* the pass gave.
VARIABLES raw, verdict

lineVars == <<raw, verdict>>

\* Before load_dataframe returns there is no table.
NoFrame == [schema |-> "unset", rows |-> << >>, derived |-> << >>]

NotStarted ==
  /\ pc = [r \in Runs |-> "idle"]
  /\ pos = [r \in Runs |-> 0]
  /\ callback = [r \in Runs |-> FALSE]
  /\ advanced = [r \in Runs |-> 0]
  /\ stats = [r \in Runs |-> NewParseStats]
  /\ rows = [r \in Runs |-> << >>]
  /\ frame = [r \in Runs |-> NoFrame]
  /\ trace = [r \in Runs |-> << >>]

ParseInit ==
  /\ file \in Files
  /\ variant \in [Runs -> Variants]
  /\ NotStarted

\* load_dataframe that keeps counting in the ParseStats of the other run.
LoadDataframeCallSharedStats(r) ==
  /\ pc[r] = "idle"
  /\ \E show_progress \in BOOLEAN, is_terminal \in BOOLEAN :
       callback' = [callback EXCEPT
                      ![r] = show_progress /\ is_terminal /\ SumBytes(file) > 0]
  /\ stats' = [stats EXCEPT ![r] = stats[CHOOSE o \in Runs : o # r]]
  /\ pc' = [pc EXCEPT ![r] = "parsing"]
  /\ UNCHANGED <<file, variant, pos, advanced, rows, frame, trace, aggVars, runVars, lineVars>>

\* load_dataframe up to the call of parse: a fresh ParseStats, and the
\* callback only with show_progress on a terminal for a file of > 0 bytes.
LoadDataframeCall(r) ==
  /\ pc[r] = "idle"
  /\ \E show_progress \in BOOLEAN, is_terminal \in BOOLEAN :
       callback' = [callback EXCEPT
                      ![r] = show_progress /\ is_terminal /\ SumBytes(file) > 0]
  /\ stats' = [stats EXCEPT ![r] = NewParseStats]
  /\ pc' = [pc EXCEPT ![r] = "parsing"]
  /\ UNCHANGED <<file, variant, pos, advanced, rows, frame, trace, aggVars, runVars, lineVars>>

\* An entry of the history: what was called, for which line of the file
\* (0: none) and, for advance_progress, with which amount.
Event(op, n, amount) == [op |-> op, line |-> n, amount |-> amount]

\* What one iteration does, in the order of the statements of the loop body:
\* advance_progress(len(raw_line)) if there is a callback, then the one
\* note_success or note_failure, then the yield.
Iteration(r, n, outcome) ==
  (IF callback[r] THEN <<Event("advance_progress", n, Line[file[n]].nchars)>> ELSE << >>)
  \o (CASE outcome.kind = "record" -> <<Event("note_success", n, 0), Event("yield", n, 0)>>
        [] outcome.kind = "reject" -> <<Event("note_failure", n, 0)>>
        [] outcome.kind = "raise" -> << >>)

\* One iteration of "for raw_line in handle".
ParseStep(r, outcome) ==
  /\ pos' = [pos EXCEPT ![r] = @ + 1]
  /\ advanced' = [advanced EXCEPT
                    ![r] = IF callback[r] THEN @ + Line[file[pos[r] + 1]].nchars ELSE @]
  /\ trace' = [trace EXCEPT ![r] = @ \o Iteration(r, pos[r] + 1, outcome)]
  /\ CASE outcome.kind = "record" ->
            /\ stats' = [stats EXCEPT ![r] = note_success(@)]
            /\ rows' = [rows EXCEPT ![r] = Append(@, outcome.record)]
            /\ pc' = pc
       [] outcome.kind = "reject" ->
            /\ stats' = [stats EXCEPT ![r] = note_failure(@, outcome.reason)]
            /\ rows' = rows
            /\ pc' = pc
       [] outcome.kind = "raise" ->
            /\ stats' = stats
            /\ rows' = rows
            /\ pc' = [pc EXCEPT ![r] = "raised"]
  /\ UNCHANGED <<file, variant, callback, frame, aggVars, runVars, lineVars>>

Reading(r, v) == pc[r] = "parsing" /\ variant[r] = v /\ pos[r] < Len(file)

PaloAltoParse(r) ==
  /\ Reading(r, "palo")
  /\ ParseStep(r, PaloAltoLine(file[pos[r] + 1], pos[r] + 1))

UniFiParse(r) ==
  /\ Reading(r, "unifi")
  /\ ParseStep(r, UniFiLine(file[pos[r] + 1], pos[r] + 1))

WatchGuardParse(r) ==
  /\ Reading(r, "watchguard")
  /\ ParseStep(r, WatchGuardLine(file[pos[r] + 1], pos[r] + 1))

MerakiParse(r) ==
  /\ Reading(r, "meraki")
  /\ ParseStep(r, MerakiLine(file[pos[r] + 1], pos[r] + 1))

(***************************************************************************)
(* Table construction: the columns of the schema, and the with_columns     *)
(* steps that derive the typed columns.  A cell is << >> (null) or <<v>>.  *)
(***************************************************************************)
Null == << >>

\* The items of FIELD_ALIASES (palo_alto.py): the place of a field in the body
\* and its name.
AliasItems ==
  << <<0, "future_use">>, <<1, "receive_time">>, <<2, "serial_number">>,
    <<3, "log_type">>, <<4, "log_subtype">>, <<5, "config_version">>,
    <<6, "generated_time">>, <<7, "src_ip">>, <<8, "dst_ip">>,
    <<9, "nat_src_ip">>, <<10, "nat_dst_ip">>, <<11, "rule_name">>,
    <<12, "src_user">>, <<13, "dst_user">>, <<14, "application">>,
    <<15, "vsys">>, <<16, "src_zone">>, <<17, "dst_zone">>,
    <<18, "inbound_interface">>, <<19, "outbound_interface">>,
    <<20, "log_action">>, <<21, "logged_time">>, <<22, "session_id">>,
    <<23, "repeat_count">>, <<24, "src_port">>, <<25, "dst_port">>,
    <<26, "nat_src_port">>, <<27, "nat_dst_port">>, <<28, "flags">>,
    <<29, "protocol">>, <<30, "action">>, <<31, "bytes_total">>,
    <<32, "bytes_sent">>, <<33, "bytes_received">>, <<34, "packets">>,
    <<35, "session_start_time">>, <<36, "elapsed_time">>, <<37, "category">>,
    <<38, "padding">>, <<39, "seqno">>, <<40, "action_flags">>,
    <<41, "src_country">>, <<42, "dst_country">>, <<44, "packets_sent">>,
    <<45, "packets_received">>, <<46, "session_end_reason">>,
    <<47, "device_group">>, <<52, "device_name">>, <<53, "policy_type">>,
    <<55, "monitor_tag">>, <<56, "parent_session_id">>,
    <<57, "parent_start_time">>, <<60, "http2_connection_id">>,
    <<65, "rule_uuid">>, <<102, "generated_timestamp">>,
    <<105, "app_family">>, <<106, "app_technology">>,
    <<107, "app_risk_level">>, <<108, "app_risk_score">>,
    <<109, "app_characteristics">>, <<110, "app_subcategory">>,
    <<111, "app_identifier">>, <<112, "app_tunneled">>,
    <<113, "app_is_saas">>, <<114, "app_risk_category">>,
    <<115, "app_tunnel_category">> >>

FIELD_ALIASES ==
  [index \in { AliasItems[n][1] : n \in 1..Len(AliasItems) } |->
     AliasItems[CHOOSE n \in 1..Len(AliasItems) : AliasItems[n][1] = index][2]]

\* FIELD_ALIASES.values()
Aliases == { FIELD_ALIASES[i] : i \in DOMAIN FIELD_ALIASES }

\* The schema dict of each load_dataframe, and the columns its with_columns
\* steps add.
Schema ==
  [palo |-> {"syslog_host", "syslog_month", "syslog_day", "syslog_time"}
            \cup Aliases,
   unifi |-> {"syslog_month", "syslog_day", "syslog_time", "host_ip", "hostname",
              "process", "pid", "message", "log_level", "category"},
   watchguard |-> {"syslog_month", "syslog_day", "syslog_time", "host_ip",
                   "device_id", "device_name", "iso_timestamp", "process", "pid",
                   "msg_id", "message", "log_level", "category"},
   meraki |-> {"syslog_month", "syslog_day", "syslog_time", "host_ip", "priority",
               "epoch_timestamp", "device_type", "event_type", "message",
               "log_level", "category", "src", "dst", "protocol", "sport",
               "dport", "mac", "translated_src_ip", "translated_port", "pattern"}]

DerivedColumns ==
  [palo |-> {"receive_time_ts", "generated_time_ts", "session_start_ts",
             "generated_timestamp_ts", "minute_bucket"},
   unifi |-> {"timestamp_str", "timestamp", "minute_bucket", "message_length"},
   watchguard |-> {"timestamp", "minute_bucket", "message_length"},
   meraki |-> {"timestamp", "minute_bucket", "message_length"}]

\* frame.columns: pl.DataFrame(schema={}) has none.
Columns(fr) ==
  IF fr.schema \in DOMAIN Schema THEN Schema[fr.schema] \cup DerivedColumns[fr.schema]
  ELSE {}

\* The minutes the sample lines fall in, ascending; a datetime truncated to
\* "1m" is the place of its minute in this list.
Minutes == <<"2025-11-05 00:00", "2025-11-05 00:01", "2025-11-05 00:02">>

\* str.strptime(pl.Datetime, format, strict=False) and dt.truncate("1m"); the
\* year of a UniFi timestamp_str is that of the file's modification time.
MinuteOf(text) ==
  IF text \in {"2025-Nov-5 00:00:04", "2025-11-05T00:00:03", "1762300804.143040390"}
  THEN 1 ELSE 0

\* float(text) is defined: digits with at most one dot.
IsFloatText(text) == text \in {"1762300804.143040390", "111111111111111111111111111111"}

\* Decimal digits of the integer part of a float text.
IntegerDigits(text) == IF text = "1762300804.143040390" THEN 10 ELSE 30

\* Every integer of up to 18 decimal digits is an Int64 (2^63 has 19), and
\* none of 20 or more is.
Int64Digits == 18

\* .cast(pl.Float64, strict=False): null where the text is not a float.
CastFloat64(cell) ==
  IF cell = Null THEN Null ELSE IF IsFloatText(cell[1]) THEN cell ELSE Null

\* .cast(pl.Int64), strict: a float outside the Int64 range is an error.
CastInt64Raises(cell) == cell # Null /\ IntegerDigits(cell[1]) > Int64Digits

\* meraki.py: epoch_timestamp -> Float64 -> Int64 -> * 1_000_000 -> Datetime,
\* then truncated to the minute.
MerakiMinute(rec) ==
  LET seconds == CastFloat64(<<rec.epoch_timestamp>>)
  IN  IF seconds = Null THEN Null ELSE <<MinuteOf(seconds[1])>>

\* The minute_bucket cell of the row of a record.  A Palo Alto record of the
\* sample lines has no receive_time field.
MinuteBucket(v, rec) ==
  CASE v = "palo" -> Null
    [] v = "unifi" -> <<MinuteOf("2025-Nov-5 00:00:04")>>
    [] v = "watchguard" -> <<MinuteOf(rec.iso_timestamp)>>
    [] v = "meraki" -> MerakiMinute(rec)

\* "for port_col in ["sport", "dport", "translated_port"]"
PortColumns == {"sport", "dport", "translated_port"}

\* Largest Int32.
Int32Max == 2147483647

\* .cast(pl.Int32, strict=False) of a text cell: the number a text of
\* decimal digits writes, null where the text is no number or the number
\* is no Int32.
CastInt32(cell) ==
  IF cell = Null THEN Null
  ELSE IF cell[1] # "" /\ (\A i \in 1..Len(cell[1]) : CharAt(cell[1], i) \in CharsOf(DigitChars))
          /\ DigitsValue(cell[1], 0) <= Int32Max
    THEN <<DigitsValue(cell[1], 0)>>
  ELSE Null

\* The cells the with_columns steps of load_dataframe put in the row of a
\* record, of the columns the aggregations read.
Coerced(v, rec) ==
  IF v = "meraki" /\ "dport" \in DOMAIN rec
  THEN [minute_bucket |-> MinuteBucket(v, rec), dport |-> CastInt32(<<rec.dport>>)]
  ELSE [minute_bucket |-> MinuteBucket(v, rec)]

\* Whether a with_columns step of load_dataframe raises on these records.
CoercionRaises(v, recs) ==
  /\ v = "meraki"
  /\ \E i \in 1..Len(recs) : CastInt64Raises(CastFloat64(<<recs[i].epoch_timestamp>>))

\* The derived columns, row by row.
WithColumns(v, fr) ==
  [schema |-> fr.schema,
   rows |-> fr.rows,
   derived |-> IF fr.schema = "empty" THEN << >>
               ELSE [i \in 1..Len(fr.rows) |-> Coerced(v, fr.rows[i])]]

\* A table built without the first record.
BuildFrameDropsFirst(v, recs) ==
  IF recs = << >> THEN [schema |-> "empty", rows |-> << >>]
  ELSE [schema |-> v, rows |-> Tail(recs)]

\* load_dataframe once parse is exhausted: rows = list(parse(...)); no rows
\* gives pl.DataFrame(schema={}), otherwise one table row per record.
BuildFrame(v, recs) ==
  IF recs = << >> THEN [schema |-> "empty", rows |-> << >>]
  ELSE [schema |-> v, rows |-> recs]

LoadDataframeReturn(r) ==
  /\ pc[r] = "parsing"
  /\ pos[r] = Len(file)
  /\ trace' = [trace EXCEPT ![r] = Append(@, Event("DataFrame", 0, 0))]
  /\ IF CoercionRaises(variant[r], rows[r])
     THEN /\ pc' = [pc EXCEPT ![r] = "raised"]
          /\ frame' = frame
     ELSE /\ pc' = [pc EXCEPT ![r] = "returned"]
          /\ frame' = [frame EXCEPT
                         ![r] = WithColumns(variant[r], BuildFrame(variant[r], rows[r]))]
  /\ UNCHANGED <<file, variant, pos, callback, advanced, stats, rows, aggVars, runVars, lineVars>>

ParseNext ==
  \E r \in Runs :
    \/ LoadDataframeCall(r)
    \/ PaloAltoParse(r)
    \/ UniFiParse(r)
    \/ WatchGuardParse(r)
    \/ MerakiParse(r)
    \/ LoadDataframeReturn(r)


(***************************************************************************)
(* Floats.  cli.py computes the noise cutoff and the shares in Python      *)
(* floats and polars Float64, both IEEE 754 binary64.  A positive double   *)
(* is [m, e]: m its 53 significand bits, first bit 1, most significant     *)
(* first, and e the exponent of the last bit, so the value is m * 2^e.     *)
(* Results are rounded to nearest, ties to even.  Integers stay below 2^31 *)
(* throughout: long arithmetic goes by limbs of LimbBits bits.             *)
(***************************************************************************)
\* Significand bits of a binary64.
Precision == 53

\* Bits per limb, and the limbs of a significand (3 * 18 >= 53).
LimbBits == 18

MantissaLimbs == 3

\* Limbs of quotient computed after the integer part of a division.
QuotientLimbs == 5

RECURSIVE Pow2(_)
Pow2(n) == IF n = 0 THEN 1 ELSE 2 * Pow2(n - 1)

RECURSIVE BitsOf(_)
BitsOf(n) == IF n = 0 THEN << >> ELSE Append(BitsOf(n \div 2), n % 2)

Zeros(n) == [i \in 1..n |-> 0]

\* The bits of a sequence of limbs, LimbBits bits each.
LimbsToBits(limbs) ==
  << >> \o [i \in 1..(LimbBits * Len(limbs)) |->
              (limbs[((i - 1) \div LimbBits) + 1]
                 \div Pow2(LimbBits - 1 - ((i - 1) % LimbBits))) % 2]

\* The number whose bits are bits[lo..hi] (at most LimbBits of them).
RECURSIVE BitsValue(_, _, _)
BitsValue(bits, lo, hi) ==
  IF hi < lo THEN 0 ELSE 2 * BitsValue(bits, lo, hi - 1) + bits[hi]

\* The limbs of a bit string of n * LimbBits bits.
BitsToLimbs(bits) ==
  << >> \o [j \in 1..(Len(bits) \div LimbBits) |->
              BitsValue(bits, (j - 1) * LimbBits + 1, j * LimbBits)]

\* bits without its leading zeros.
StripZeros(bits) ==
  IF \A i \in 1..Len(bits) : bits[i] = 0 THEN << >>
  ELSE SubSeq(bits, CHOOSE i \in 1..Len(bits) :
                      bits[i] = 1 /\ \A j \in 1..(i - 1) : bits[j] = 0,
              Len(bits))

\* bits + 1 on a bit string of fixed length that is not all ones.
Increment(bits) ==
  LET n == Len(bits)
      z == CHOOSE i \in 1..n : bits[i] = 0 /\ \A j \in (i + 1)..n : bits[j] = 1
  IN  SubSeq(bits, 1, z - 1) \o <<1>> \o Zeros(n - z)

\* The double nearest to bits * 2^e (bits without leading zeros), where
\* sticky tells that the exact value lies above bits * 2^e by less than 2^e.
RoundToDouble(bits, sticky, e) ==
  LET n == Len(bits) IN
  IF n <= Precision
  THEN [m |-> bits \o Zeros(Precision - n), e |-> e - (Precision - n)]
  ELSE LET keep == SubSeq(bits, 1, Precision)
           guard == bits[Precision + 1]
           rest == sticky \/ \E i \in (Precision + 2)..n : bits[i] = 1
           up == guard = 1 /\ (rest \/ keep[Precision] = 1)
           e2 == e + (n - Precision)
       IN  IF ~up THEN [m |-> keep, e |-> e2]
           ELSE IF \A i \in 1..Precision : keep[i] = 1
                THEN [m |-> <<1>> \o Zeros(Precision - 1), e |-> e2 + 1]
                ELSE [m |-> Increment(keep), e |-> e2]

\* float(n) for an integer n > 0.
FromInt(n) == RoundToDouble(BitsOf(n), FALSE, 0)

\* limbs * k + carry for a small integer k, from the last limb: the limbs
\* of the product, the carry out of the first limb in front.
RECURSIVE MulLimbs(_, _, _)
MulLimbs(limbs, k, carry) ==
  IF limbs = << >> THEN <<carry>>
  ELSE LET n == Len(limbs)
           p == limbs[n] * k + carry
       IN  Append(MulLimbs(SubSeq(limbs, 1, n - 1), k, p \div Pow2(LimbBits)),
                  p % Pow2(LimbBits))

\* x * float(k), for an integer 0 < k < 2^12.
MulSmall(x, k) ==
  LET limbs == BitsToLimbs(Zeros(MantissaLimbs * LimbBits - Precision) \o x.m)
      product == MulLimbs(limbs, k, 0)
  IN  RoundToDouble(StripZeros(LimbsToBits(product)), FALSE, x.e)

\* The first n limbs after the point of rem / d, and the remainder left.
RECURSIVE DivLimbs(_, _, _)
DivLimbs(rem, d, n) ==
  IF n = 0 THEN [quot |-> << >>, rem |-> rem]
  ELSE LET t == rem * Pow2(LimbBits)
           rest == DivLimbs(t % d, d, n - 1)
       IN  [quot |-> <<t \div d>> \o rest.quot, rem |-> rest.rem]

\* float(a) / float(d), for integers 0 < a, d < 2^12.
DivInts(a, d) ==
  LET frac == DivLimbs(a % d, d, QuotientLimbs)
      bits == BitsOf(a \div d) \o LimbsToBits(frac.quot)
  IN  RoundToDouble(StripZeros(bits), frac.rem # 0, 0 - QuotientLimbs * LimbBits)

BitsLess(a, b) ==
  \E i \in 1..Len(a) : a[i] < b[i] /\ \A j \in 1..(i - 1) : a[j] = b[j]

\* x < y for positive doubles.
FloatLess(x, y) == x.e < y.e \/ (x.e = y.e /\ BitsLess(x.m, y.m))

FloatGeq(x, y) == ~FloatLess(x, y)

(***************************************************************************)
(* Tables for the aggregation functions of cli.py.  A frame has a set of   *)
(* columns and a sequence of rows; a row maps each column to a cell; a     *)
(* cell is Null or <<value>>.                                              *)
(***************************************************************************)
\* The grouping column and the secondary-sum column of collect_top_counts.
GroupColumn == "action"

BytesColumn == "bytes_total"

\* Values of the grouping column, in ascending (byte) order.
KeyOrder == <<"allow", "deny", "reset">>

KeyCells == {Null} \cup { <<KeyOrder[i]>> : i \in 1..Len(KeyOrder) }

ByteCells == {Null, <<1>>}

\* The column collect_trend groups by; a bucket is a minute, counted from the
\* first minute of the log.
BucketColumn == "minute_bucket"

BucketCells == {Null} \cup { <<m>> : m \in 1..Len(Minutes) }

RowsOf(cols) ==
  IF cols = {GroupColumn, BytesColumn}
    THEN { [action |-> k, bytes_total |-> b] : k \in KeyCells, b \in ByteCells }
  ELSE IF cols = {GroupColumn} THEN { [action |-> k] : k \in KeyCells }
  ELSE IF cols = {BytesColumn} THEN { [bytes_total |-> b] : b \in ByteCells }
  ELSE IF cols = {BucketColumn} THEN { [minute_bucket |-> b] : b \in BucketCells }
  ELSE {}

SmallTables ==
  UNION { { [columns |-> cols, rows |-> rs] : rs \in SeqsUpTo(RowsOf(cols), MaxRows) }
          : cols \in SUBSET {GroupColumn, BytesColumn} \cup {{BucketColumn}} }

\* The scenario of the specification: actions allow x100, deny x40, reset x40.
ScenarioActions ==
  [columns |-> {GroupColumn},
   rows |-> [i \in 1..180 |->
               [action |-> IF i <= 40 THEN <<"reset">>
                           ELSE IF i <= 80 THEN <<"deny">> ELSE <<"allow">>]]]

\* 25 rows, 7 of them deny: a share of exactly 28 percent.
ScenarioShare ==
  [columns |-> {GroupColumn},
   rows |-> [i \in 1..25 |-> [action |-> IF i <= 7 THEN <<"deny">> ELSE <<"allow">>]]]

Tables == SmallTables \cup {ScenarioActions, ScenarioShare}

\* Values of top (the --top option has no bounds) and of threshold.
TopValues == {-2, -1, 0, 1, 2, 5}

ThresholdValues == {-1, 0, 28, 50, 100, 101}

Height(df) == Len(df.rows)

\* Permutations of a finite set, as sequences.
Orderings(S) ==
  { f \in [1..Cardinality(S) -> S] : \A i, j \in 1..Cardinality(S) : f[i] = f[j] => i = j }

\* A stable sort: before[i][j] says that seq[i] goes strictly before seq[j];
\* a row's place is the number of rows that go before it.
SortBy(seq, before) ==
  LET n == Len(seq)
      place(i) == 1 + Cardinality({ j \in 1..n :
                        before[j][i] \/ (~before[i][j] /\ j < i) })
  IN  [p \in 1..n |-> seq[CHOOSE i \in 1..n : place(i) = p]]

\* head that keeps the last n rows instead of the first.
DfHeadKeepsLast(seq, n) ==
  IF n >= 0 THEN SubSeq(seq, IF n < Len(seq) THEN Len(seq) - n + 1 ELSE 1, Len(seq))
  ELSE SubSeq(seq, 1, IF Len(seq) + n > 0 THEN Len(seq) + n ELSE 0)

\* DataFrame.head(n): the first n rows, or all but the last -n if n < 0.
DfHead(seq, n) ==
  IF n >= 0 THEN SubSeq(seq, 1, IF n < Len(seq) THEN n ELSE Len(seq))
  ELSE SubSeq(seq, 1, IF Len(seq) + n > 0 THEN Len(seq) + n ELSE 0)

\* str(value or "<missing>") on a text cell: None and "" are falsy.
Label(cell) == IF cell = Null THEN "<missing>" ELSE IF cell[1] = "" THEN "<missing>" ELSE cell[1]

\* str(value or "<missing>") on a cell of the column: None, "" and 0 are
\* falsy.  The port columns hold integers, the other grouping columns text.
LabelOf(column, cell) ==
  IF column \in PortColumns
  THEN IF cell = Null THEN "<missing>"
       ELSE IF cell[1] = 0 THEN "<missing>" ELSE IntText(cell[1])
  ELSE Label(cell)

\* column.replace("_", " ").title()
Titles ==
  [log_type |-> "Log Type", log_subtype |-> "Log Subtype",
   application |-> "Application", rule_name |-> "Rule Name", action |-> "Action",
   session_end_reason |-> "Session End Reason", src_ip |-> "Src Ip",
   dst_ip |-> "Dst Ip", log_level |-> "Log Level", category |-> "Category",
   process |-> "Process", hostname |-> "Hostname", msg_id |-> "Msg Id",
   device_name |-> "Device Name", event_type |-> "Event Type",
   protocol |-> "Protocol", src |-> "Src", dst |-> "Dst", dport |-> "Dport",
   bytes_total |-> "Bytes Total"]

TitleOf(column) == Titles[column]

\* The texts found in the grouping columns, in ascending (byte) order.
TextOrder ==
  <<"10.10.0.102", "35.153.85.208", "3D01-0003", "6", "CEF", "M370",
    "UniFi-Express", "allow", "deny", "info", "ip_flow_end", "loggerd",
    "network-flow", "reset", "system", "systemd", "unifi-security", "warning">>

KeyRank(cell) == CHOOSE i \in 1..Len(TextOrder) : TextOrder[i] = cell[1]

\* Ascending order of a text column in a polars sort: nulls first.
KeyLess(a, b) ==
  IF a = Null THEN b # Null
  ELSE IF b = Null THEN FALSE
  ELSE KeyRank(a) < KeyRank(b)

\* Ascending order of a column in a polars sort, nulls first: numbers by
\* value, texts by KeyLess.
CellLess(column, a, b) ==
  IF column \in PortColumns
  THEN IF a = Null THEN b # Null
       ELSE IF b = Null THEN FALSE
       ELSE a[1] < b[1]
  ELSE KeyLess(a, b)

\* group_by(column).agg(len, sum): one group per distinct cell, null
\* included; the sum of a group skips nulls.  polars leaves the order of
\* the groups open: order is the one this call produced.
GroupEventsSkipsNull(df, column, key) ==
  IF key = Null THEN 0
  ELSE Cardinality({ i \in 1..Height(df) : df.rows[i][column] = key })

GroupEvents(df, column, key) ==
  Cardinality({ i \in 1..Height(df) : df.rows[i][column] = key })

RECURSIVE SumUpTo(_, _, _, _, _)
SumUpTo(df, column, key, summed, n) ==
  IF n = 0 THEN 0
  ELSE SumUpTo(df, column, key, summed, n - 1)
       + (IF df.rows[n][column] = key /\ df.rows[n][summed] # Null
          THEN df.rows[n][summed][1] ELSE 0)

GroupSum(df, column, key, summed) == SumUpTo(df, column, key, summed, Height(df))

GroupKeys(df, column) == { df.rows[i][column] : i \in 1..Height(df) }

None == [present |-> FALSE]

\* The sort with the group key descending as well.
TopBeforeKeyDescending(a, b) ==
  \/ a.events > b.events
  \/ a.events = b.events /\ a.bytes > b.bytes
  \/ a.events = b.events /\ a.bytes = b.bytes /\ CellLess(a.column, b.key, a.key)

\* sort(["events", "bytes", column], descending=[True, True, False])
TopBefore(a, b) ==
  \/ a.events > b.events
  \/ a.events = b.events /\ a.bytes > b.bytes
  \/ a.events = b.events /\ a.bytes = b.bytes /\ CellLess(a.column, a.key, b.key)

\* The section returned, without its title and the bytes_formatted text of a
\* row; key is the group's cell as it was before str().
collect_top_counts(df, column, bytes_column, top, order) ==
  IF column \notin df.columns THEN None
  ELSE LET withBytes == bytes_column \in df.columns
           aggregation ==
             [i \in 1..Len(order) |->
                [column |-> column,
                 key |-> order[i],
                 events |-> GroupEvents(df, column, order[i]),
                 bytes |-> IF withBytes
                           THEN GroupSum(df, column, order[i], bytes_column)
                           ELSE 0]]
           kept == DfHead(SortBy(aggregation,
                               [i \in 1..Len(order) |-> [j \in 1..Len(order) |->
                                  TopBefore(aggregation[i], aggregation[j])]]), top)
       IN  [present |-> TRUE,
            columns |-> <<TitleOf(column), "Events">>
                        \o (IF withBytes THEN <<"Approx. Bytes">> ELSE << >>),
            rows |-> [i \in 1..Len(kept) |->
                        [label |-> LabelOf(column, kept[i].key),
                         key |-> kept[i].key,
                         events |-> kept[i].events,
                         bytes |-> IF withBytes THEN <<kept[i].bytes>> ELSE Null]]]

\* total_events * (threshold / 100.0) and events / total_events * 100.0 in
\* binary64, tabulated over the heights and thresholds in use.
Heights == (1..MaxRows) \cup {Height(ScenarioActions), Height(ScenarioShare)}

CutoffTable ==
  [t \in { x \in ThresholdValues : x > 0 } |->
     [n \in Heights |-> MulSmall(DivInts(t, 100), n)]]

ShareTable ==
  [n \in Heights |-> [events \in 1..n |-> MulSmall(DivInts(events, n), 100)]]

\* sort(["share", "events"], descending=[True, True])
NoiseBefore(a, b) ==
  \/ FloatLess(b.share, a.share)
  \/ ~FloatLess(a.share, b.share) /\ a.events > b.events

\* group_by(column).agg(pl.len().alias("events")).with_columns(share): the
\* groups before the filter.
NoiseGroups(df, column, order) ==
  [i \in 1..Len(order) |->
     LET events == GroupEvents(df, column, order[i])
     IN  [key |-> order[i],
          events |-> events,
          share |-> ShareTable[Height(df)][events]]]

\* collect_noise_candidates without the is_empty check after the filter.
collect_noise_candidates_no_empty_check(df, column, threshold, order) ==
  IF threshold <= 0 THEN None
  ELSE IF column \notin df.columns THEN None
  ELSE IF Height(df) = 0 THEN None
  ELSE LET total_events == Height(df)
           cutoff == CutoffTable[threshold][total_events]
           aggregation == NoiseGroups(df, column, order)
           passing == { i \in 1..Len(order) :
                          FloatGeq(FromInt(aggregation[i].events), cutoff) }
           filtered == [p \in 1..Cardinality(passing) |->
                          aggregation[CHOOSE i \in passing :
                             Cardinality({ j \in passing : j < i }) = p - 1]]
           sorted == SortBy(filtered,
                             [i \in 1..Len(filtered) |-> [j \in 1..Len(filtered) |->
                                NoiseBefore(filtered[i], filtered[j])]])
       IN  [present |-> TRUE,
            columns |-> <<TitleOf(column), "Events", "Traffic Share">>,
            rows |-> [i \in 1..Len(sorted) |->
                        [label |-> LabelOf(column, sorted[i].key),
                         key |-> sorted[i].key,
                         events |-> sorted[i].events,
                         share |-> sorted[i].share]]]

collect_noise_candidates(df, column, threshold, order) ==
  IF threshold <= 0 THEN None
  ELSE IF column \notin df.columns THEN None
  ELSE IF Height(df) = 0 THEN None
  ELSE LET total_events == Height(df)
           cutoff == CutoffTable[threshold][total_events]
           aggregation == NoiseGroups(df, column, order)
           passing == { i \in 1..Len(order) :
                          FloatGeq(FromInt(aggregation[i].events), cutoff) }
           filtered == [p \in 1..Cardinality(passing) |->
                          aggregation[CHOOSE i \in passing :
                             Cardinality({ j \in passing : j < i }) = p - 1]]
           sorted == SortBy(filtered,
                             [i \in 1..Len(filtered) |-> [j \in 1..Len(filtered) |->
                                NoiseBefore(filtered[i], filtered[j])]])
       IN  IF sorted = << >> THEN None
           ELSE [present |-> TRUE,
                 columns |-> <<TitleOf(column), "Events", "Traffic Share">>,
                 rows |-> [i \in 1..Len(sorted) |->
                             [label |-> LabelOf(column, sorted[i].key),
                              key |-> sorted[i].key,
                              events |-> sorted[i].events,
                              share |-> sorted[i].share]]]

\* rows[:top]: the first top rows, or all but the last -top if top < 0.
SliceTo(seq, top) ==
  IF top >= 0 THEN SubSeq(seq, 1, IF top < Len(seq) THEN top ELSE Len(seq))
  ELSE SubSeq(seq, 1, IF Len(seq) + top > 0 THEN Len(seq) + top ELSE 0)

\* bucket.strftime("%Y-%m-%d %H:%M")
FormatMinute(bucket) == Minutes[bucket]

\* The buckets of the rows left by filter(minute_bucket.is_not_null()).
Buckets(df) == GroupKeys(df, BucketColumn) \ {Null}

\* The trend section, without its title; bucket is the minute before strftime.
collect_trend(df, top, order) ==
  IF BucketColumn \notin df.columns THEN None
  ELSE LET grouped ==
             [i \in 1..Len(order) |->
                [bucket |-> order[i],
                 events |-> GroupEvents(df, BucketColumn, order[i])]]
           trend == SortBy(grouped,
                           [i \in 1..Len(order) |-> [j \in 1..Len(order) |->
                              grouped[i].bucket[1] < grouped[j].bucket[1]]])
       IN  IF Len(trend) = 0 THEN None
           ELSE [present |-> TRUE,
                 columns |-> <<"Minute", "Events">>,
                 rows |-> SliceTo([i \in 1..Len(trend) |->
                                     [minute |-> FormatMinute(trend[i].bucket[1]),
                                      bucket |-> trend[i].bucket,
                                      events |-> trend[i].events]], top)]

(***************************************************************************)
(* The aggregation functions applied to a table: the table is drawn at     *)
(* the start and one collector is applied to it.                           *)
(***************************************************************************)
NoCall == [fn |-> "none", column |-> GroupColumn, top |-> 0, threshold |-> 0]

NoTable == [columns |-> {}, rows |-> << >>]

\* The group order this call's group_by produced: any order of the groups.
GroupOrders(df, column) ==
  IF column \in df.columns THEN Orderings(GroupKeys(df, column)) ELSE { << >> }

CollectTopCounts ==
  /\ call = NoCall
  /\ \E top \in TopValues : \E order \in GroupOrders(table, GroupColumn) :
    /\ call' = [fn |-> "top", column |-> GroupColumn, top |-> top, threshold |-> 0]
    /\ result' = collect_top_counts(table, GroupColumn, BytesColumn, top, order)
    /\ UNCHANGED <<table, parseVars, runVars, lineVars>>

CollectNoiseCandidates ==
  /\ call = NoCall
  /\ \E threshold \in ThresholdValues : \E order \in GroupOrders(table, GroupColumn) :
    /\ call' = [fn |-> "noise", column |-> GroupColumn, top |-> 0, threshold |-> threshold]
    /\ result' = collect_noise_candidates(table, GroupColumn, threshold, order)
    /\ UNCHANGED <<table, parseVars, runVars, lineVars>>

\* The order in which this call's group_by produced the buckets.
BucketOrders(df) ==
  IF BucketColumn \in df.columns THEN Orderings(Buckets(df)) ELSE { << >> }

CollectTrend ==
  /\ call = NoCall
  /\ \E top \in TopValues : \E order \in BucketOrders(table) :
    /\ call' = [fn |-> "trend", column |-> BucketColumn, top |-> top, threshold |-> 0]
    /\ result' = collect_trend(table, top, order)
    /\ UNCHANGED <<table, parseVars, runVars, lineVars>>

(***************************************************************************)
(* One command, run_<vendor>_analysis of cli.py, on run "A":               *)
(* load_dataframe, the exit on zero records, the ReportData, the           *)
(* aggregations in the order of the sections list, the filter that drops   *)
(* the None results, and export_report or print_report.                    *)
(***************************************************************************)
\* parser.name
ParserName ==
  [palo |-> "Palo Alto Networks", unifi |-> "UniFi", watchguard |-> "WatchGuard",
   meraki |-> "Meraki"]

Request(fn, column) == [fn |-> fn, column |-> column]

\* The sections list of each command, in the order it is written; the Palo
\* Alto command appends the application characteristics to it.
Requests ==
  [palo |->
     <<Request("top", "log_type"), Request("top", "log_subtype"),
       Request("top", "application"), Request("top", "rule_name"),
       Request("top", "action"), Request("top", "session_end_reason"),
       Request("top", "src_ip"), Request("top", "dst_ip"),
       Request("trend", BucketColumn),
       Request("noise", "rule_name"), Request("noise", "src_ip"),
       Request("noise", "dst_ip"), Request("app", "app_characteristics")>>,
   unifi |->
     <<Request("top", "log_level"), Request("top", "category"),
       Request("top", "process"), Request("top", "hostname"),
       Request("trend", BucketColumn),
       Request("noise", "process"), Request("noise", "category")>>,
   watchguard |->
     <<Request("top", "log_level"), Request("top", "category"),
       Request("top", "process"), Request("top", "msg_id"),
       Request("top", "device_name"), Request("trend", BucketColumn),
       Request("noise", "process"), Request("noise", "msg_id"),
       Request("noise", "category")>>,
   meraki |->
     <<Request("top", "event_type"), Request("top", "category"),
       Request("top", "log_level"), Request("top", "protocol"),
       Request("top", "src"), Request("top", "dst"), Request("top", "dport"),
       Request("trend", BucketColumn),
       Request("noise", "event_type"), Request("noise", "src"),
       Request("noise", "dst")>>]

\* The table as the aggregations read it: a cell of a derived column, of a
\* field the record holds, or null.  Of the derived columns the aggregations
\* read minute_bucket only.
FrameTable(fr) ==
  [columns |-> Columns(fr),
   rows |-> [i \in 1..Len(fr.rows) |->
               [c \in Columns(fr) |->
                  IF c \in DOMAIN fr.derived[i] THEN fr.derived[i][c]
                  ELSE IF c \in DOMAIN fr.rows[i] THEN <<fr.rows[i][c]>>
                  ELSE Null]]]

\* run_palo_analysis: split(","), explode, strip, drop "" and null, count by
\* value, sort by events descending, head(top).  The values of the sample
\* records hold no comma.
collect_app_characteristics(df, top, order) ==
  LET grouped == [i \in 1..Len(order) |->
                    [key |-> order[i],
                     events |-> GroupEvents(df, "app_characteristics", order[i])]]
      kept == DfHead(SortBy(grouped,
                            [i \in 1..Len(order) |-> [j \in 1..Len(order) |->
                               grouped[i].events > grouped[j].events]]), top)
  IN  [present |-> TRUE,
       columns |-> <<"Characteristic", "Events">>,
       rows |-> [i \in 1..Len(kept) |->
                   [label |-> kept[i].key[1], key |-> kept[i].key,
                    events |-> kept[i].events]]]

\* The orders in which the group_by of a request can produce its groups.
RequestOrders(df, request) ==
  CASE request.fn = "trend" -> BucketOrders(df)
    [] request.fn = "app" -> Orderings(GroupKeys(df, request.column) \ {Null})
    [] OTHER -> GroupOrders(df, request.column)

\* One entry of the sections list.
Collected(df, request, opts, order) ==
  CASE request.fn = "top" ->
         collect_top_counts(df, request.column, BytesColumn, opts.top, order)
    [] request.fn = "trend" -> collect_trend(df, opts.top, order)
    [] request.fn = "noise" ->
         collect_noise_candidates(df, request.column, opts.noise_threshold, order)
    [] request.fn = "app" -> collect_app_characteristics(df, opts.top, order)

\* The values of --top and --noise-threshold a command is run with.
RunTopValues == {0, 5}

RunThresholdValues == {0, 50}

NoOptions == [path |-> "", top |-> 0, noise_threshold |-> 0]

NoOutput == [kind |-> "none"]

\* No command is running.
NoRun ==
  /\ phase = "off" /\ options = NoOptions /\ sections = << >>
  /\ report = None /\ output = NoOutput

\* No line is under a loop body.
NoRaw == [parser |-> "none"]

NoPass == raw = NoRaw /\ verdict = None

\* "if stats.parsed == 0: ... raise typer.Exit(code=1)"
ExitNoRecords ==
  /\ phase = "load" /\ pc["A"] = "returned"
  /\ stats["A"].parsed = 0
  /\ phase' = "exit"
  /\ output' = [kind |-> "exit", code |-> 1]
  /\ UNCHANGED <<parseVars, aggVars, lineVars, options, sections, report>>

\* ReportData(source_path=path, generated_at=..., stats=stats, parser_name=...)
ReportData(path, parse_stats, parser_name) ==
  [present |-> TRUE, source_path |-> path, stats |-> parse_stats,
   parser_name |-> parser_name, sections |-> << >>]

\* The command without the exit on zero records.
CreateReportUnchecked ==
  /\ phase = "load" /\ pc["A"] = "returned"
  /\ \E top \in RunTopValues, noise_threshold \in RunThresholdValues :
       options' = [path |-> "fw.log", top |-> top, noise_threshold |-> noise_threshold]
  /\ report' = ReportData("fw.log", stats["A"], ParserName[variant["A"]])
  /\ phase' = "collect"
  /\ UNCHANGED <<parseVars, aggVars, lineVars, sections, output>>

CreateReport ==
  /\ phase = "load" /\ pc["A"] = "returned"
  /\ stats["A"].parsed # 0
  /\ \E top \in RunTopValues, noise_threshold \in RunThresholdValues :
       options' = [path |-> "fw.log", top |-> top, noise_threshold |-> noise_threshold]
  /\ report' = ReportData("fw.log", stats["A"], ParserName[variant["A"]])
  /\ phase' = "collect"
  /\ UNCHANGED <<parseVars, aggVars, lineVars, sections, output>>

\* The next entry of the sections list is computed.
Collect ==
  /\ phase = "collect"
  /\ Len(sections) < Len(Requests[variant["A"]])
  /\ LET request == Requests[variant["A"]][Len(sections) + 1]
         df == FrameTable(frame["A"])
     IN  /\ \E order \in RequestOrders(df, request) :
               sections' = Append(sections, Collected(df, request, options, order))
         /\ trace' = [trace EXCEPT !["A"] = Append(@, Event(request.fn, 0, 0))]
  /\ UNCHANGED <<file, variant, pc, pos, callback, advanced, stats, rows, frame,
                 aggVars, lineVars, phase, options, report, output>>

\* A filter that keeps the present results in reverse order.
PresentReversed(seq) ==
  LET kept == { i \in 1..Len(seq) : seq[i] # None }
  IN  [p \in 1..Cardinality(kept) |->
         seq[CHOOSE i \in kept : Cardinality({ j \in kept : j > i }) = p - 1]]

\* [s for s in sections if s is not None]
Present(seq) ==
  LET kept == { i \in 1..Len(seq) : seq[i] # None }
  IN  [p \in 1..Cardinality(kept) |->
         seq[CHOOSE i \in kept : Cardinality({ j \in kept : j < i }) = p - 1]]

\* "report.sections = [s for s in sections if s is not None]"
AssembleReport ==
  /\ phase = "collect"
  /\ Len(sections) = Len(Requests[variant["A"]])
  /\ report' = [report EXCEPT !.sections = Present(sections)]
  /\ phase' = "assembled"
  /\ UNCHANGED <<parseVars, aggVars, lineVars, options, sections, output>>

\* export_report(report, export_path): by the suffix of export_path; a suffix
\* other than .html, .md and .json raises typer.BadParameter.
ExportReport ==
  /\ phase = "assembled"
  /\ \E suffix \in {".html", ".md", ".json", ".txt"} :
       output' = IF suffix = ".txt" THEN [kind |-> "BadParameter"]
                 ELSE [kind |-> "exported", suffix |-> suffix, report |-> report]
  /\ phase' = "done"
  /\ UNCHANGED <<parseVars, aggVars, lineVars, options, sections, report>>

\* print_report that empties stats.rejected while it lists the reasons.
PrintReportClearsRejected ==
  /\ phase = "assembled"
  /\ output' = [kind |-> "printed", report |-> report]
  /\ phase' = "done"
  /\ stats' = [stats EXCEPT !["A"].rejected = [k \in {} |-> 0]]
  /\ UNCHANGED <<file, variant, pc, pos, callback, advanced, rows, frame, trace,
                 aggVars, lineVars, options, sections, report>>

\* print_report(report)
PrintReport ==
  /\ phase = "assembled"
  /\ output' = [kind |-> "printed", report |-> report]
  /\ phase' = "done"
  /\ UNCHANGED <<parseVars, aggVars, lineVars, options, sections, report>>

(***************************************************************************)
(* One pass of a parser's loop body over the text of a line.  raw is       *)
(* [parser, text, match, ...]: the parser, the line without its newline    *)
(* and what the parser's pattern gives on it, None or the named groups.    *)
(* The lines are put together from the groups, so text and match agree.    *)
(* A dict is a function on its keys; a value that can be None is a cell.   *)
(***************************************************************************)
\* Longest message of a generated line, in words.
MaxWords == 2

\* "Mon d hh:mm:ss host " and the groups the patterns take from it.
Header == "Nov  5 00:00:04 90.102.85.18 "

HeaderGroups ==
  [month |-> "Nov", day |-> "5", time |-> "00:00:04", host |-> "90.102.85.18"]

Phrases(words) == { Join(s, " ") : s \in SeqsUpTo(words, MaxWords) }

\* Lines none of the patterns matches: empty, blank, free text, JSON.
OtherTexts ==
  {"", "   ", "hello world", "{", " \t{\"name\": 1},", "\"x\": 2", "]", " [1,", "}"}

Unmatched(v) == { [parser |-> v, text |-> t, match |-> None] : t \in OtherTexts }

EmptyDict == [k \in {} |-> ""]

\* d[k] = v
Put(d, k, v) == [x \in DOMAIN d \cup {k} |-> IF x = k THEN v ELSE d[x]]

\* d.get(k)
Get(d, k) == IF k \in DOMAIN d THEN <<d[k]>> ELSE Null

\* dict | dict
Merge(d, e) == [x \in DOMAIN d \cup DOMAIN e |-> IF x \in DOMAIN e THEN e[x] ELSE d[x]]

(***************************************************************************)
(* palo_alto.py                                                            *)
(***************************************************************************)
\* csv.reader of the default dialect (delimiter ",", quotechar '"',
\* doublequote, not strict), character by character.  One field, read from
\* place i on: state is where the reader is, field the characters so far;
\* the result tells whether the end of the line ended the field, and if not
\* the place after the delimiter.
RECURSIVE CsvField(_, _, _, _)
CsvField(text, i, state, field) ==
  IF i > Len(text) THEN [value |-> field, last |-> TRUE, next |-> i]
  ELSE LET c == CharAt(text, i)
           ended == [value |-> field, last |-> FALSE, next |-> i + 1]
       IN  CASE state = "START_FIELD" ->
                  IF c = "\"" THEN CsvField(text, i + 1, "IN_QUOTED_FIELD", "")
                  ELSE IF c = "," THEN ended
                  ELSE CsvField(text, i + 1, "IN_FIELD", c)
             [] state = "IN_FIELD" ->
                  IF c = "," THEN ended
                  ELSE CsvField(text, i + 1, "IN_FIELD", field \o c)
             [] state = "IN_QUOTED_FIELD" ->
                  IF c = "\"" THEN CsvField(text, i + 1, "QUOTE_IN_QUOTED_FIELD", field)
                  ELSE CsvField(text, i + 1, "IN_QUOTED_FIELD", field \o c)
             [] state = "QUOTE_IN_QUOTED_FIELD" ->
                  IF c = "\"" THEN CsvField(text, i + 1, "IN_QUOTED_FIELD", field \o c)
                  ELSE IF c = "," THEN ended
                  ELSE CsvField(text, i + 1, "IN_FIELD", field \o c)

\* At most n fields from place i on, in order.
RECURSIVE CsvRun(_, _, _)
CsvRun(text, i, n) ==
  LET read == CsvField(text, i, "START_FIELD", "")
      rest == CsvRun(text, read.next, n - 1)
  IN  IF read.last \/ n = 1
      THEN [fields |-> <<read.value>>, last |-> read.last, next |-> read.next]
      ELSE [fields |-> <<read.value>> \o rest.fields, last |-> rest.last, next |-> rest.next]

\* The fields from place i on, read by runs of RunLength fields.
RunLength == 12

RECURSIVE CsvRecord(_, _)
CsvRecord(text, i) ==
  LET run == CsvRun(text, i, RunLength)
  IN  IF run.last THEN run.fields ELSE run.fields \o CsvRecord(text, run.next)

\* next(csv.reader([rest])); an empty line is a record of no fields.
CsvFields(rest) == IF rest = "" THEN << >> ELSE CsvRecord(rest, 1)

\* _normalise_field that keeps the field as it is.
normalise_field_unstripped(value) ==
  IF value = "" THEN Null ELSE <<value>>

\* _normalise_field: value.strip(), "value or None"
normalise_field(value) ==
  IF Strip(value) = "" THEN Null ELSE <<Strip(value)>>

\* The loop body of PaloAltoParser.parse after the progress callback.  The
\* reader raises csv.Error on a field longer than its limit of 131072
\* characters; such a line is marked oversize.
PaloAltoBody(l) ==
  IF l.text = "" THEN Reject("empty")
  ELSE IF ~l.match.present THEN Reject("missing-prefix")
  ELSE IF l.oversize THEN Reject("csv-error: field larger than field limit (131072)")
  ELSE LET fields == CsvFields(l.match.rest)
           named == { index \in DOMAIN FIELD_ALIASES : index < Len(fields) }
       IN  Yield(Merge([syslog_host |-> l.match.host, syslog_month |-> l.match.month,
                        syslog_day |-> l.match.day, syslog_time |-> l.match.time],
                       [alias \in { FIELD_ALIASES[index] : index \in named } |->
                          normalise_field(
                            fields[(CHOOSE index \in named : FIELD_ALIASES[index] = alias) + 1])]))

\* The fields of the generated bodies, taken in turn: plain, padded, empty,
\* quoted with a comma, blank, and one with a quote inside.
FieldTexts == <<"1", " a b ", "", "\"x,y\"", "  ", "z\"q">>

\* The fields as the reader returns them.
FieldValues == <<"1", " a b ", "", "x,y", "  ", "z\"q">>

\* The numbers of fields of the generated bodies.
PaloLengths == {0, 1, 2, 3, 4, 5, 6, 43, 44, 45, 48, 49, 52, 53, 66, 103, 110, 116, 117, 120}

BodyOf(k) == Join([i \in 1..k |-> FieldTexts[((i - 1) % Len(FieldTexts)) + 1]], ",")

\* Lines SYSLOG_PREFIX matches: rest is the line from the end of the match.
PaloAltoLines ==
  { [parser |-> "palo", text |-> Header \o BodyOf(k), oversize |-> FALSE,
     match |-> Merge(HeaderGroups, [present |-> TRUE, rest |-> BodyOf(k), count |-> k])] :
      k \in PaloLengths }
  \cup
  \* "...,<one field of 140000 characters>"
  { [parser |-> "palo", text |-> Header \o "1,2025/11/05 00:00:04,x...", oversize |-> TRUE,
     match |-> Merge(HeaderGroups, [present |-> TRUE, rest |-> "1,2025/11/05 00:00:04,x...",
                                    count |-> 3])] }

PaloAltoUnmatched ==
  { [parser |-> "palo", text |-> t, oversize |-> FALSE, match |-> None] : t \in OtherTexts }

(***************************************************************************)
(* unifi.py                                                                *)
(***************************************************************************)
\* any(word in text for word in words)
AnyIn(words, text) == \E word \in words : Contains(text, word)

\* _infer_log_level of unifi.py with the test for "debug" before that for the
\* lifecycle words.
unifi_infer_log_level_debug_first(message) ==
  LET message_lower == Lower(message)
  IN  IF AnyIn({"error", "failed", "failure", "critical", "fatal"}, message_lower) THEN "error"
      ELSE IF AnyIn({"warn", "warning"}, message_lower) THEN "warning"
      ELSE IF Contains(message_lower, "debug") THEN "debug"
      ELSE "info"

\* _infer_log_level of unifi.py
unifi_infer_log_level(message) ==
  LET message_lower == Lower(message)
  IN  IF AnyIn({"error", "failed", "failure", "critical", "fatal"}, message_lower) THEN "error"
      ELSE IF AnyIn({"warn", "warning"}, message_lower) THEN "warning"
      ELSE IF AnyIn({"starting", "started", "stopping", "stopped", "finished", "succeeded"},
                    message_lower) THEN "info"
      ELSE IF Contains(message_lower, "debug") THEN "debug"
      ELSE "info"

\* _categorize_process of unifi.py
unifi_categorize_process(process) ==
  LET process_lower == Lower(process)
  IN  IF process_lower = "unifi-security" THEN "unifi-security"
      ELSE IF Contains(process_lower, "systemd") THEN "system"
      ELSE IF AnyIn({"kernel", "dmesg"}, process_lower) THEN "kernel"
      ELSE IF AnyIn({"mcad", "stamgr", "wevent", "ubios"}, process_lower) THEN "unifi-controller"
      ELSE IF AnyIn({"hostapd", "wpa"}, process_lower) THEN "wifi"
      ELSE IF AnyIn({"dhcp", "dns", "named"}, process_lower) THEN "network-services"
      ELSE IF AnyIn({"ssh", "sshd", "login"}, process_lower) THEN "auth"
      ELSE "other"

\* line.startswith(("{", "}", '"', "]", "[")), without the lstrip.
JsonDataUnstripped(text) ==
  \E sign \in {"{", "}", "\"", "]", "["} : StartsWith(text, sign)

\* stripped = line.lstrip(); stripped.startswith(("{", "}", '"', "]", "["))
JsonData(text) ==
  \E sign \in {"{", "}", "\"", "]", "["} : StartsWith(LStrip(text), sign)

\* The loop body of UniFiParser.parse after the progress callback.  int()
\* raises ValueError inside the dict display, before note_success.
UniFiBody(l) ==
  IF l.text = "" THEN Reject("empty")
  ELSE IF JsonData(l.text) THEN Reject("json-data")
  ELSE IF l.cef.present THEN
    IF ~IsDecimal(l.cef.severity) THEN Raise("ValueError")
    ELSE Yield([syslog_month |-> l.cef.month, syslog_day |-> l.cef.day,
                syslog_time |-> l.cef.time, host_ip |-> l.cef.host,
                hostname |-> "CEF", process |-> "unifi-security", pid |-> Null,
                message |-> l.cef.event_name \o " (severity=" \o l.cef.severity \o ")",
                log_level |-> IF IntOf(l.cef.severity) >= 5 THEN "warning" ELSE "info",
                category |-> "unifi-security"])
  ELSE IF ~l.match.present THEN Reject("format-mismatch")
  ELSE Yield([syslog_month |-> l.match.month, syslog_day |-> l.match.day,
              syslog_time |-> l.match.time, host_ip |-> l.match.host,
              hostname |-> l.match.hostname, process |-> l.match.process,
              pid |-> l.match.pid, message |-> l.match.message,
              log_level |-> unifi_infer_log_level(l.match.message),
              category |-> unifi_categorize_process(l.match.process)])

\* The severity fields of the generated CEF lines; CEF_PATTERN takes any
\* text without "|".
UniFiSeverities == {"0", "3", "4", "5", "7", "10", " 7", "+6", "1_0", "7.5", "High"}

\* What follows the severity field: the second makes SYSLOG_PATTERN match
\* the line too, with the text before "msg" as hostname and process.
UniFiExtensions == {"src=10.0.0.9", "src=10.0.0.9 msg: Failed login"}

CefStart == "CEF:0|Ubiquiti|UniFi|9.0|201|Threat Detected|"

\* Lines CEF_PATTERN matches.
UniFiCefLines ==
  { [parser |-> "unifi",
     text |-> Header \o CefStart \o severity \o "|" \o extensions,
     cef |-> Merge(HeaderGroups, [present |-> TRUE, event_name |-> "Threat Detected",
                                  severity |-> severity]),
     match |-> IF extensions = "src=10.0.0.9" THEN None
               ELSE Merge(HeaderGroups,
                          [present |-> TRUE, hostname |-> "CEF:0|Ubiquiti|UniFi|9.0|201|Threat",
                           process |-> "Detected|" \o severity \o "|src=10.0.0.9 msg",
                           pid |-> Null, message |-> "Failed login"])] :
      severity \in UniFiSeverities, extensions \in UniFiExtensions }

UniFiProcesses ==
  {"systemd", "systemd-logind", "kernel", "Kernel", "dmesg", "mcad", "mcad-kernel",
   "stamgr", "wevent", "ubios-udapi-server", "hostapd", "wpa_supplicant", "dhcpcd",
   "ssh-dhcp", "dnsmasq", "named", "sshd", "login", "unifi-security", "UniFi-Security",
   "unifi-security-agent", "cron"}

UniFiWords ==
  {"Error", "failed", "critical", "WARN", "Starting", "stopped", "debug", "DEBUG", "ok"}

\* "hostname process[pid]: message"
ProcLine(process, message) ==
  [parser |-> "unifi",
   text |-> Header \o "UniFi-Express " \o process \o "[1]: " \o message,
   cef |-> None,
   match |-> Merge(HeaderGroups, [present |-> TRUE, hostname |-> "UniFi-Express",
                                  process |-> process, pid |-> <<"1">>,
                                  message |-> message])]

\* Lines SYSLOG_PATTERN matches and CEF_PATTERN does not.
UniFiProcLines ==
  { ProcLine(process, "Starting DEBUG") : process \in UniFiProcesses }
  \cup { ProcLine("syswrapper", message) : message \in Phrases(UniFiWords) }

UniFiUnmatched ==
  { [parser |-> "unifi", text |-> t, cef |-> None, match |-> None] : t \in OtherTexts }

(***************************************************************************)
(* watchguard.py                                                           *)
(***************************************************************************)
\* _infer_log_level_from_msg_id with the message tested before msg_id.
infer_log_level_message_first(msg_id, message) ==
  LET message_lower == Lower(message)
  IN  IF AnyIn({"error", "failed", "failure", "critical", "fatal", "down"}, message_lower)
        THEN "error"
      ELSE IF AnyIn({"warning", "block", "deny", "reject", "unknown"}, message_lower)
        THEN "warning"
      ELSE IF msg_id # Null /\ msg_id[1] # ""
              /\ \E prefix \in {"3001-", "0207-", "020B-"} : StartsWith(msg_id[1], prefix)
        THEN "warning"
      ELSE IF msg_id # Null /\ msg_id[1] # ""
              /\ \E prefix \in {"4001-", "7600-"} : StartsWith(msg_id[1], prefix)
        THEN "error"
      ELSE "info"

\* _infer_log_level_from_msg_id; msg_id is Null or <<text>>.
infer_log_level_from_msg_id(msg_id, message) ==
  LET message_lower == Lower(message)
  IN  IF msg_id # Null /\ msg_id[1] # ""
         /\ \E prefix \in {"3001-", "0207-", "020B-"} : StartsWith(msg_id[1], prefix)
        THEN "warning"
      ELSE IF msg_id # Null /\ msg_id[1] # ""
              /\ \E prefix \in {"4001-", "7600-"} : StartsWith(msg_id[1], prefix)
        THEN "error"
      ELSE IF AnyIn({"error", "failed", "failure", "critical", "fatal", "down"}, message_lower)
        THEN "error"
      ELSE IF AnyIn({"warning", "block", "deny", "reject", "unknown"}, message_lower)
        THEN "warning"
      ELSE "info"

\* _categorize_process of watchguard.py
watchguard_categorize_process(process) ==
  LET process_lower == Lower(Strip(process))
  IN  IF process_lower = "firewall" THEN "firewall"
      ELSE IF process_lower \in {"iked", "sslvpn"} THEN "vpn"
      ELSE IF process_lower = "dhcpd" THEN "network-services"
      ELSE IF process_lower = "sessiond" THEN "session-management"
      ELSE IF process_lower \in {"loggerd", "admd"} THEN "system"
      ELSE IF process_lower = "sigd" THEN "security"
      ELSE IF process_lower \in {"portald", "gwcd"} THEN "gateway"
      ELSE IF process_lower \in {"certd", "link-mon"} THEN "monitoring"
      ELSE "other"

\* The loop body of WatchGuardParser.parse after the progress callback.
WatchGuardBody(l) ==
  IF l.text = "" THEN Reject("empty")
  ELSE IF ~l.match.present THEN Reject("format-mismatch")
  ELSE LET m == l.match
       IN  Yield([syslog_month |-> m.month, syslog_day |-> m.day,
                  syslog_time |-> m.time, host_ip |-> m.host,
                  device_id |-> m.device_id, device_name |-> m.device_name,
                  iso_timestamp |-> m.timestamp, process |-> m.process,
                  pid |-> m.pid, msg_id |-> m.msg_id, message |-> m.message,
                  log_level |-> infer_log_level_from_msg_id(m.msg_id, m.message),
                  category |-> watchguard_categorize_process(m.process)])

\* "device_id device_name (timestamp) process[pid]: msg_id="..." message";
\* pid and msg_id are Null or <<text>>.
WatchGuardLineOf(process, pid, msg_id, message) ==
  [parser |-> "watchguard",
   text |-> Header \o "801304C6AA57D St-EgreveM370 (2025-11-04T00:00:03) " \o process
            \o (IF pid = Null THEN "" ELSE "[" \o pid[1] \o "]") \o ": "
            \o (IF msg_id = Null THEN "" ELSE "msg_id=\"" \o msg_id[1] \o "\" ")
            \o message,
   match |-> Merge(HeaderGroups,
                   [present |-> TRUE, device_id |-> "801304C6AA57D",
                    device_name |-> "St-EgreveM370", timestamp |-> "2025-11-04T00:00:03",
                    process |-> process, pid |-> pid, msg_id |-> msg_id,
                    message |-> message])]

\* Process names WATCHGUARD_PATTERN takes: no "[" or ":", a space may end
\* the name.
WatchGuardProcesses ==
  {"firewall", "Firewall", "FIREWALL ", "iked", "sslvpn", "dhcpd", "sessiond", "loggerd",
   "loggerd ", "admd", "sigd", "portald", "gwcd", "certd", "link-mon", "Link-Mon",
   "firewalld", "my firewall", "https-proxy"}

WatchGuardMsgIds ==
  {Null, <<"3001-0001">>, <<"0207-0001">>, <<"020B-0002">>, <<"4001-0001">>,
   <<"7600-0001">>, <<"3D01-0003">>, <<"020b-0002">>, <<"13001-0001">>, <<"3001">>}

WatchGuardWords == {"error", "Down", "Warning", "BLOCK", "unknown", "ok"}

\* Lines WATCHGUARD_PATTERN matches.
WatchGuardLines ==
  { WatchGuardLineOf(process, Null, Null, "Archived log file") :
      process \in WatchGuardProcesses }
  \cup { WatchGuardLineOf("loggerd", <<"2545">>, msg_id, message) :
           msg_id \in WatchGuardMsgIds, message \in Phrases(WatchGuardWords) }

(***************************************************************************)
(* meraki.py                                                               *)
(***************************************************************************)
\* First place at or after i that holds no \w character.
RECURSIVE WordEnd(_, _)
WordEnd(text, i) ==
  IF i <= Len(text) /\ IsWordChar(CharAt(text, i)) THEN WordEnd(text, i + 1) ELSE i

\* First place at or after i that holds whitespace, or the end.
RECURSIVE NonSpaceEnd(_, _)
NonSpaceEnd(text, i) ==
  IF i <= Len(text) /\ ~IsSpace(CharAt(text, i)) THEN NonSpaceEnd(text, i + 1) ELSE i

\* (\w+)[:=]([^\s]+) matched at place i: both runs are greedy, and a shorter
\* \w+ is followed by a \w character, which is neither ":" nor "=".
PairAt(text, i) ==
  LET sep == WordEnd(text, i)
      stop == NonSpaceEnd(text, sep + 1)
  IN  IF sep > i /\ sep <= Len(text) /\ CharAt(text, sep) \in {":", "="} /\ stop > sep + 1
      THEN [present |-> TRUE, key |-> SubSeq(text, i, sep - 1),
            value |-> SubSeq(text, sep + 1, stop - 1), end |-> stop]
      ELSE None

\* pattern.finditer(text) with "pairs[key] = value" for each match: the
\* leftmost match from place i on, then on from where it ends.
RECURSIVE FindPairs(_, _, _)
FindPairs(text, i, pairs) ==
  IF i > Len(text) THEN pairs
  ELSE LET found == PairAt(text, i)
       IN  IF found.present THEN FindPairs(text, found.end, Put(pairs, found.key, found.value))
           ELSE FindPairs(text, i + 1, pairs)

\* A scan that keeps the first value of a key.
parse_key_value_pairs_first_wins(text) ==
  LET RECURSIVE Scan(_, _)
      Scan(i, pairs) ==
        IF i > Len(text) THEN pairs
        ELSE LET found == PairAt(text, i)
             IN  IF found.present
                 THEN Scan(found.end, IF found.key \in DOMAIN pairs THEN pairs
                                      ELSE Put(pairs, found.key, found.value))
                 ELSE Scan(i + 1, pairs)
  IN  Scan(1, EmptyDict)

parse_key_value_pairs(text) == FindPairs(text, 1, EmptyDict)

\* _infer_log_level of meraki.py with the rules of "events" under "firewall".
meraki_infer_log_level_swapped(event_type, message) ==
  IF event_type = "firewall"
  THEN IF Contains(Lower(message), "error") \/ Contains(Lower(message), "fail")
       THEN "error" ELSE "info"
  ELSE IF event_type = "events"
  THEN IF Contains(Lower(message), "deny") \/ Contains(Lower(message), "block")
       THEN "warning" ELSE "info"
  ELSE "info"

\* _infer_log_level of meraki.py
meraki_infer_log_level(event_type, message) ==
  IF event_type = "firewall"
  THEN IF Contains(Lower(message), "deny") \/ Contains(Lower(message), "block")
       THEN "warning" ELSE "info"
  ELSE IF event_type = "events"
  THEN IF Contains(Lower(message), "error") \/ Contains(Lower(message), "fail")
       THEN "error" ELSE "info"
  ELSE IF event_type \in {"ip_flow_start", "ip_flow_end"} THEN "info"
  ELSE IF event_type = "urls" THEN "info"
  ELSE "info"

categorize_event(event_type, message) ==
  IF event_type \in {"ip_flow_start", "ip_flow_end"} THEN "network-flow"
  ELSE IF event_type = "urls" THEN "web-security"
  ELSE IF event_type = "firewall" THEN "firewall"
  ELSE IF event_type = "events"
  THEN IF Contains(Lower(message), "dhcp") THEN "dhcp" ELSE "system-events"
  ELSE "other"

\* The keys "for key in [...]" copies from the scan into the record.
MerakiKeys ==
  {"src", "dst", "protocol", "sport", "dport", "mac", "translated_src_ip",
   "translated_port", "pattern"}

\* The loop body of MerakiParser.parse after the progress callback.
MerakiBody(l) ==
  IF l.text = "" THEN Reject("empty")
  ELSE IF ~l.match.present THEN Reject("format-mismatch")
  ELSE LET m == l.match
           kv_pairs == parse_key_value_pairs(m.message)
       IN  Yield(Merge([syslog_month |-> m.month, syslog_day |-> m.day,
                        syslog_time |-> m.time, host_ip |-> m.host,
                        priority |-> m.priority, epoch_timestamp |-> m.timestamp,
                        device_type |-> m.device_type, event_type |-> m.event_type,
                        message |-> m.message,
                        log_level |-> meraki_infer_log_level(m.event_type, m.message),
                        category |-> categorize_event(m.event_type, m.message)],
                       [key \in MerakiKeys |-> Get(kv_pairs, key)]))

MerakiEventTypes ==
  {"ip_flow_start", "ip_flow_end", "urls", "firewall", "events", "Firewall",
   "air_marshal_events"}

MerakiWords ==
  {"src=10.10.0.102", "src:10.9.9.9", "x-dst=35.153.85.208", "url=/p?dport=80",
   "pattern:", "user=bob", "Deny", "BLOCKED", "DHCP", "Error", "failover", "allow"}

\* Lines MERAKI_PATTERN matches: the message is what follows the whitespace
\* after the event type.
MerakiLines ==
  { [parser |-> "meraki",
     text |-> Header \o "1 1762300804.143040390 ROUTER " \o e \o " " \o m,
     match |-> Merge(HeaderGroups,
                     [present |-> TRUE, priority |-> "1",
                      timestamp |-> "1762300804.143040390", device_type |-> "ROUTER",
                      event_type |-> e, message |-> m])] :
      e \in MerakiEventTypes, m \in Phrases(MerakiWords) }

RawLines ==
  PaloAltoUnmatched \cup PaloAltoLines
  \cup UniFiUnmatched \cup UniFiCefLines \cup UniFiProcLines
  \cup Unmatched("watchguard") \cup WatchGuardLines
  \cup Unmatched("meraki") \cup MerakiLines

\* One pass: the verdict on the line and the one update of the ParseStats.
Pass(v, out) ==
  /\ raw.parser = v
  /\ verdict = None
  /\ verdict' = out
  /\ stats' = [stats EXCEPT
                 !["A"] = CASE out.kind = "record" -> note_success(@)
                            [] out.kind = "reject" -> note_failure(@, out.reason)
                            [] out.kind = "raise" -> @]
  /\ UNCHANGED <<file, variant, pc, pos, callback, advanced, rows, frame, trace,
                 aggVars, runVars, raw>>

PaloAltoPass == Pass("palo", PaloAltoBody(raw))

UniFiPass == Pass("unifi", UniFiBody(raw))

WatchGuardPass == Pass("watchguard", WatchGuardBody(raw))

MerakiPass == Pass("meraki", MerakiBody(raw))

vars == <<parseVars, aggVars, runVars, lineVars>>

Init ==
  /\ ParseInit
  /\ table = NoTable /\ call = NoCall /\ result = None
  /\ NoRun
  /\ NoPass

Next == ParseNext

Spec == Init /\ [][Next]_vars

AggInit ==
  /\ file = << >> /\ variant = [r \in Runs |-> "palo"] /\ NotStarted
  /\ table \in Tables /\ call = NoCall /\ result = None
  /\ NoRun
  /\ NoPass

AggNext == CollectTopCounts \/ CollectTrend \/ CollectNoiseCandidates

SpecAgg == AggInit /\ [][AggNext]_vars

\* One command on one file; run "B" stays idle.
RunInit ==
  /\ file \in RunFiles
  /\ \E v \in Variants : variant = [r \in Runs |-> v]
  /\ NotStarted
  /\ table = NoTable /\ call = NoCall /\ result = None
  /\ phase = "load" /\ options = NoOptions /\ sections = << >>
  /\ report = None /\ output = NoOutput
  /\ NoPass

RunNext ==
  \/ LoadDataframeCall("A")
  \/ PaloAltoParse("A")
  \/ UniFiParse("A")
  \/ WatchGuardParse("A")
  \/ MerakiParse("A")
  \/ LoadDataframeReturn("A")
  \/ ExitNoRecords
  \/ CreateReport
  \/ Collect
  \/ AssembleReport
  \/ ExportReport
  \/ PrintReport

SpecRun == RunInit /\ [][RunNext]_vars

\* One line under the loop body of one parser.
LineInit ==
  /\ file = << >> /\ variant = [r \in Runs |-> "palo"] /\ NotStarted
  /\ table = NoTable /\ call = NoCall /\ result = None
  /\ NoRun
  /\ raw \in RawLines /\ verdict = None

LineNext == PaloAltoPass \/ UniFiPass \/ WatchGuardPass \/ MerakiPass

SpecLine == LineInit /\ [][LineNext]_vars

(***************************************************************************)
(* Properties of the parse runs (specification Spec).                      *)
(***************************************************************************)
\* What the parser of variant v makes of line l, the n-th of the file.
ParseLine(v, l, n) ==
  CASE v = "palo" -> PaloAltoLine(l, n)
    [] v = "unifi" -> UniFiLine(l, n)
    [] v = "watchguard" -> WatchGuardLine(l, n)
    [] v = "meraki" -> MerakiLine(l, n)

Started(r) == pc[r] # "idle"

Rejections(s) == { i \in 1..Len(s.log) : s.log[i] # "parsed" }

\* load_dataframe is over: it returned, or an exception left it.
Ended(r) == pc[r] \in {"returned", "raised"}

\* The exception came out of parse, before the table was built.
RaisedInParse(r) ==
  pc[r] = "raised" /\ \A i \in 1..Len(trace[r]) : trace[r][i].op # "DataFrame"

\* C1: in every state of every parse run, of any variant, total_lines equals
\* parsed plus the sum of the counts in rejected.
C1_TotalIsParsedPlusRejected ==
  \A r \in Runs : stats[r].total_lines = stats[r].parsed + RejectedTotal(stats[r])

\* A run that has accepted one line and rejected another.
C1_Witness ==
  \E r \in Runs :
    /\ stats[r].parsed > 0
    /\ \E reason \in DOMAIN stats[r].rejected : stats[r].rejected[reason] > 0

\* C2: every line read has exactly one outcome (one record or one rejection),
\* no line stops the run, and a run that ended counted every line of the file.
C2_EveryLineOneOutcome ==
  \A r \in Runs :
    /\ ~RaisedInParse(r)
    /\ Started(r) => stats[r].total_lines = pos[r]
    /\ Started(r) => Len(stats[r].log) = pos[r]
    /\ pc[r] = "returned" => stats[r].total_lines = Len(file)

\* C3: when load_dataframe has returned, the table has stats.parsed rows, the
\* i-th row is the record of the i-th accepted line of the file, and no
\* rejected line has a row; a rejected line is counted in stats.rejected.
C3_TableRowsAreAcceptedLines ==
  \A r \in Runs :
    pc[r] = "returned" =>
      LET accepted == { n \in 1..Len(file) :
                          ParseLine(variant[r], file[n], n).kind = "record" }
          table_rows == frame[r].rows
      IN  /\ Len(table_rows) = stats[r].parsed
          /\ Len(table_rows) = Cardinality(accepted)
          /\ \A i \in 1..Len(table_rows) :
               /\ table_rows[i].lineno \in accepted
               /\ table_rows[i] = ParseLine(variant[r], file[table_rows[i].lineno],
                                            table_rows[i].lineno).record
               /\ Cardinality({ n \in accepted : n < table_rows[i].lineno }) = i - 1
          /\ RejectedTotal(stats[r]) = Len(file) - Cardinality(accepted)

\* A returned table with a row, from a file whose first line was rejected.
C3_Witness ==
  \E r \in Runs :
    /\ pc[r] = "returned"
    /\ Len(frame[r].rows) > 0
    /\ frame[r].rows[1].lineno > 1
    /\ RejectedTotal(stats[r]) > 0

\* C4: two runs of one variant over the file agree at every line boundary on
\* counters, rejection reasons and records, and on the returned table,
\* however they interleave and whether or not either has a progress callback.
C4_RunsAgree ==
  \A r1, r2 \in Runs :
    (variant[r1] = variant[r2] /\ Started(r1) /\ Started(r2) /\ pos[r1] = pos[r2]) =>
      /\ stats[r1] = stats[r2]
      /\ rows[r1] = rows[r2]
      /\ RaisedInParse(r1) = RaisedInParse(r2)
      /\ (Ended(r1) /\ Ended(r2)) => (pc[r1] = pc[r2] /\ frame[r1] = frame[r2])

\* Two returned runs of one variant, one with the callback and one without,
\* over a file with an accepted and a rejected line.
C4_Witness ==
  /\ variant["A"] = variant["B"]
  /\ pc["A"] = "returned" /\ pc["B"] = "returned"
  /\ callback["A"] # callback["B"]
  /\ advanced["A"] # advanced["B"]
  /\ stats["A"].parsed > 0
  /\ Rejections(stats["A"]) # {}

(***************************************************************************)
(* Properties of the aggregation functions (specification SpecAgg).        *)
(***************************************************************************)
TopCall == call.fn = "top"

NoiseCall == call.fn = "noise"

HasColumn == GroupColumn \in table.columns

HasBytes == BytesColumn \in table.columns

\* The groups of the table, their sizes and sums, counted from its rows.
Groups == IF HasColumn THEN GroupKeys(table, GroupColumn) ELSE {}

EventsOf(g) == GroupEvents(table, GroupColumn, g)

BytesOf(g) == IF HasBytes THEN GroupSum(table, GroupColumn, g, BytesColumn) ELSE 0

Returned == IF result.present THEN { result.rows[i].key : i \in 1..Len(result.rows) } ELSE {}

\* g goes strictly before h in the order of the specification: more events,
\* then the larger sum, then the smaller key (between two text keys).
Precedes(g, h) ==
  \/ EventsOf(g) > EventsOf(h)
  \/ EventsOf(g) = EventsOf(h) /\ BytesOf(g) > BytesOf(h)
  \/ /\ EventsOf(g) = EventsOf(h) /\ BytesOf(g) = BytesOf(h)
     /\ g # Null /\ h # Null
     /\ \E i, j \in 1..Len(KeyOrder) : i < j /\ KeyOrder[i] = g[1] /\ KeyOrder[j] = h[1]

C6_CountsNonIncreasing ==
  (TopCall /\ result.present) =>
    LET rs == result.rows
    IN  /\ \A i \in 1..(Len(rs) - 1) : rs[i].events >= rs[i + 1].events
        /\ Len(rs) > 0 =>
             \A g \in Groups \ Returned : EventsOf(g) <= rs[Len(rs)].events

\* Rows with decreasing counts returned and a group left out.
C6_Witness ==
  /\ TopCall /\ result.present
  /\ Len(result.rows) >= 2
  /\ result.rows[1].events > result.rows[2].events
  /\ Groups \ Returned # {}

\* C7: for every table and every integer limit, collect_top_counts returns at
\* most limit rows.
C7_AtMostLimitRows ==
  (TopCall /\ result.present) => Len(result.rows) <= call.top

C9_ExactlyGroupsMeetingThreshold ==
  (NoiseCall /\ call.threshold > 0 /\ HasColumn /\ Height(table) > 0) =>
    /\ Returned = { g \in Groups : EventsOf(g) * 100 >= call.threshold * Height(table) }
    /\ result.present =>
         \A i \in 1..(Len(result.rows) - 1) :
           result.rows[i].events >= result.rows[i + 1].events

\* C10: collect_noise_candidates returns None when the threshold is <= 0,
\* when the column is missing, when the table has no rows and when no group
\* reaches the threshold; a section it returns has at least one row.
C10_AbsentWhenNothingQualifies ==
  NoiseCall =>
    /\ result.present => Len(result.rows) > 0
    /\ ( \/ call.threshold <= 0
         \/ ~HasColumn
         \/ Height(table) = 0
         \/ \A g \in Groups : EventsOf(g) * 100 < call.threshold * Height(table) )
       => result = None

\* A table with rows and the column, and a threshold above 100: None.
C10_Witness ==
  /\ NoiseCall /\ call.threshold > 100
  /\ HasColumn /\ Height(table) > 0
  /\ result = None

TrendCall == call.fn = "trend"

HasBuckets == BucketColumn \in table.columns

\* The i-th of the table's distinct non-null buckets, earliest first.
NthBucket(i) ==
  CHOOSE b \in Buckets(table) : Cardinality({ c \in Buckets(table) : c[1] < b[1] }) = i - 1

\* C11: collect_trend returns None when the table has no minute_bucket column
\* or every bucket is null; otherwise its rows are the first min(limit, n) of
\* the n distinct non-null buckets in ascending order, each with the number
\* of rows of the table in that bucket.
C11_EarliestBuckets ==
  TrendCall =>
    IF ~HasBuckets THEN result = None
    ELSE IF Buckets(table) = {} THEN result = None
    ELSE LET n == Cardinality(Buckets(table))
             rs == result.rows
         IN  /\ result.present
             /\ Len(rs) = IF call.top < n THEN call.top ELSE n
             /\ \A i \in 1..Len(rs) :
                  /\ rs[i].bucket = NthBucket(i)
                  /\ rs[i].minute = Minutes[NthBucket(i)[1]]
                  /\ rs[i].events = GroupEvents(table, BucketColumn, NthBucket(i))

\* The table with rows i and i + 1 exchanged; every permutation of the rows
\* is a chain of such exchanges.
SwapRows(df, i) ==
  [df EXCEPT !.rows = [k \in 1..Len(df.rows) |->
                         IF k = i THEN df.rows[i + 1]
                         ELSE IF k = i + 1 THEN df.rows[i] ELSE df.rows[k]]]

Rearranged(df) == {df} \cup { SwapRows(df, i) : i \in 1..(Height(df) - 1) }

\* What the call made could return on the table df.
Sections(df) ==
  CASE TopCall ->
         { collect_top_counts(df, call.column, BytesColumn, call.top, order) :
             order \in GroupOrders(df, call.column) }
    [] TrendCall ->
         { collect_trend(df, call.top, order) : order \in BucketOrders(df) }
    [] NoiseCall ->
         { collect_noise_candidates(df, call.column, call.threshold, order) :
             order \in GroupOrders(df, call.column) }
    [] OTHER -> {result}

\* C12: the section each of the three functions returns, rows and their order,
\* is the same for every permutation of the table's rows, also when groups
\* have equal event counts.
C12_SameSectionForPermutedRows ==
  \A df \in Rearranged(table) : \A section \in Sections(df) : section = result


(***************************************************************************)
(* Properties of one command (specification SpecRun).                      *)
(***************************************************************************)
\* The command has filled report.sections.
Assembled == phase \in {"assembled", "done"}

\* The first header of the section a request gives.
HeaderOf(request) ==
  CASE request.fn = "trend" -> "Minute"
    [] request.fn = "app" -> "Characteristic"
    [] OTHER -> TitleOf(request.column)

\* C13: the section list of the assembled report is the present results of
\* the requested aggregations, each once and in the order of the requests,
\* and the report holds the run's ParseStats, the source path and the parser
\* name as they were given; what is printed or exported is that report.
C13_ReportSectionsInRequestOrder ==
  Assembled =>
    LET requests == Requests[variant["A"]]
        kept == { i \in 1..Len(sections) : sections[i].present }
    IN  /\ Len(sections) = Len(requests)
        /\ \A i \in kept : sections[i].columns[1] = HeaderOf(requests[i])
        /\ Len(report.sections) = Cardinality(kept)
        /\ \A i \in kept :
             report.sections[Cardinality({ j \in kept : j <= i })] = sections[i]
        /\ report.stats = stats["A"]
        /\ report.source_path = options.path
        /\ report.parser_name = ParserName[variant["A"]]
        /\ output.kind \in {"printed", "exported"} => output.report = report

\* A finished command whose results had an absent one before a present one
\* and two present ones.
C13_Witness ==
  /\ phase = "done"
  /\ \E i, j \in 1..Len(sections) :
       i < j /\ ~sections[i].present /\ sections[j].present
  /\ Len(report.sections) >= 2

\* The command has called an aggregation function.
Aggregated == \E i \in 1..Len(trace["A"]) : trace["A"][i].op \in {"top", "trend", "noise", "app"}

\* C14: a command whose parse run ended with parsed = 0 exits with code 1,
\* having called no aggregation and built, printed or exported no report; a
\* command whose run ended with parsed > 0 does not take that exit.
C14_ExitOnlyWithoutRecords ==
  /\ (pc["A"] = "returned" /\ stats["A"].parsed = 0) =>
       /\ phase \in {"load", "exit"}
       /\ ~Aggregated /\ sections = << >>
       /\ report = None
       /\ output.kind \in {"none", "exit"}
  /\ phase = "exit" =>
       /\ pc["A"] = "returned" /\ stats["A"].parsed = 0
       /\ output = [kind |-> "exit", code |-> 1]
  /\ (pc["A"] = "returned" /\ stats["A"].parsed > 0) => phase # "exit"

\* A command that left with code 1 on a file of lines that were all rejected.
C14_Witness ==
  /\ phase = "exit"
  /\ Len(file) > 0
  /\ stats["A"].total_lines = Len(file)


\* The timestamp texts that are a number of seconds in the Int64 range.
EpochInRange(text) == IsFloatText(text) /\ IntegerDigits(text) <= Int64Digits

\* C15: no value of a timestamp field makes table construction raise: when
\* every line is read load_dataframe returns, and in the returned table the
\* timestamp bucket of a row whose epoch_timestamp is not a number in range
\* is null.
C15_CoercionNeverAborts ==
  /\ pc["A"] = "raised" => RaisedInParse("A")
  /\ (pc["A"] = "returned" /\ variant["A"] = "meraki") =>
       \A i \in 1..Len(frame["A"].rows) :
         ~EpochInRange(frame["A"].rows[i].epoch_timestamp) =>
           frame["A"].derived[i].minute_bucket = Null

(***************************************************************************)
(* Further properties of the parse runs (specification Spec).              *)
(***************************************************************************)
\* C16: the columns of a returned table are the declared columns of its
\* parser, whichever lines were accepted, also when none was; a field that a
\* record does not hold is null in its row.
C16_FixedColumnSet ==
  \A r \in Runs :
    pc[r] = "returned" =>
      /\ Columns(frame[r]) = Schema[variant[r]] \cup DerivedColumns[variant[r]]
      /\ \A i \in 1..Len(frame[r].rows) :
           \A c \in Schema[variant[r]] \ DOMAIN frame[r].rows[i] :
             FrameTable(frame[r]).rows[i][c] = Null

\* The count of a reason in rejected, 0 for a reason not in it.
Count(s, reason) == IF reason \in DOMAIN s.rejected THEN s.rejected[reason] ELSE 0

\* The blank lines among the first n lines of the file.
BlankLines(n) == { i \in 1..n : Line[file[i]].empty }

\* C17: in every variant the step that reads a blank line, wherever it is in
\* the file, adds 1 to rejected["empty"] and to total_lines, leaves parsed,
\* every other count and the records as they are, and does not end the run;
\* no row of a returned table comes from a blank line, and rejected["empty"]
\* is then the number of blank lines of the file.
C17_BlankLineCountsAsEmpty ==
  [][\A r \in Runs :
       /\ (pos'[r] = pos[r] + 1 /\ Line[file[pos[r] + 1]].empty) =>
            /\ Count(stats'[r], "empty") = Count(stats[r], "empty") + 1
            /\ stats'[r].total_lines = stats[r].total_lines + 1
            /\ stats'[r].parsed = stats[r].parsed
            /\ \A k \in (DOMAIN stats[r].rejected \cup DOMAIN stats'[r].rejected) \ {"empty"} :
                 Count(stats'[r], k) = Count(stats[r], k)
            /\ rows'[r] = rows[r]
            /\ pc'[r] = "parsing"
       /\ pc'[r] = "returned" =>
            /\ \A i \in 1..Len(frame'[r].rows) : ~Line[frame'[r].rows[i].line].empty
            /\ Count(stats'[r], "empty") = Cardinality(BlankLines(Len(file)))
    ]_vars

\* A returned run of a file that has a blank line after an accepted line.
C17_Witness ==
  \E r \in Runs :
    /\ pc[r] = "returned"
    /\ stats[r].parsed > 0
    /\ \E n \in 2..Len(file) : Line[file[n]].empty
    /\ Count(stats[r], "empty") > 0

\* The places in the history of run r where advance_progress was called.
ProgressCalls(r) == { i \in 1..Len(trace[r]) : trace[r][i].op = "advance_progress" }

\* C18: a run with a progress callback has called it once for each line read,
\* in order, with the byte length of that line, so that when the whole file
\* is read the amounts add up to the size of the file.
C18_ProgressAmountsAreByteLengths ==
  \A r \in Runs :
    callback[r] =>
      /\ Cardinality(ProgressCalls(r)) = pos[r]
      /\ \A i \in ProgressCalls(r) :
           /\ trace[r][i].line = Cardinality({ j \in ProgressCalls(r) : j <= i })
           /\ trace[r][i].amount = Line[file[trace[r][i].line]].nbytes
      /\ pos[r] = Len(file) => advanced[r] = SumBytes(file)

(***************************************************************************)
(* Order and frame of one command (specification SpecRun).                 *)
(***************************************************************************)
\* The places in the history of the command that belong to line n, and those
\* with a given call.
LineEvents(n) == { i \in 1..Len(trace["A"]) : trace["A"][i].line = n }

Calls(ops) == { i \in 1..Len(trace["A"]) : trace["A"][i].op \in ops }

\* C19: the lines are handled in file order, one after the other; for each
\* line read the progress callback, if there is one, comes first, then
\* exactly one ParseStats update, then the record if the line gave one; the
\* table is built and the aggregations are called only after the last line.
C19_LineByLineThenTable ==
  LET t == trace["A"]
      updates == Calls({"note_success", "note_failure"})
  IN  /\ \A i, j \in 1..Len(t) :
           (i < j /\ t[i].line > 0 /\ t[j].line > 0) => t[i].line <= t[j].line
      /\ \A n \in 1..pos["A"] :
           /\ Cardinality(LineEvents(n) \cap updates) = 1
           /\ Cardinality(LineEvents(n) \cap Calls({"advance_progress"}))
                = IF callback["A"] THEN 1 ELSE 0
           /\ Cardinality(LineEvents(n) \cap Calls({"yield"}))
                = Cardinality(LineEvents(n) \cap Calls({"note_success"}))
           /\ \A i \in LineEvents(n) \cap Calls({"advance_progress"}) :
                \A j \in LineEvents(n) \cap updates : i < j
           /\ \A i \in LineEvents(n) \cap updates :
                \A j \in LineEvents(n) \cap Calls({"yield"}) : i < j
      /\ \A i \in Calls({"DataFrame", "top", "trend", "noise", "app"}) :
           /\ pos["A"] = Len(file)
           /\ \A n \in 1..Len(file) : \A j \in LineEvents(n) : j < i
           /\ Len(rows["A"]) = Cardinality(Calls({"yield"}))
      /\ \A i \in Calls({"top", "trend", "noise", "app"}) :
           \E j \in Calls({"DataFrame"}) : j < i

\* total_lines, parsed and rejected of a ParseStats.
Counters(s) == <<s.total_lines, s.parsed, s.rejected>>

\* C20: once load_dataframe has returned, no step of the command (an
\* aggregation, the assembly of the report, printing or exporting it)
\* changes the table or the counters of ParseStats.
C20_TableAndStatsReadOnly ==
  [][pc["A"] = "returned" =>
       /\ frame'["A"] = frame["A"]
       /\ Counters(stats'["A"]) = Counters(stats["A"])
    ]_vars

\* A finished command: every aggregation of its list was called, the report
\* was assembled and printed, and the run had rejected a line.
C20_Witness ==
  /\ phase = "done" /\ output.kind = "printed"
  /\ Len(sections) = Len(Requests[variant["A"]])
  /\ Cardinality(Calls({"top", "trend", "noise"})) >= 3
  /\ RejectedTotal(stats["A"]) > 0

(***************************************************************************)
(* Properties of one pass of a loop body (specification SpecLine).         *)
(***************************************************************************)
Passed(v) == raw.parser = v /\ verdict # None

Accepted(v) == Passed(v) /\ verdict.kind = "record"

\* text contains word, whatever the case of the letters of text.
Mentions(text, word) ==
  \E i \in 0..(Len(text) - Len(word)) :
    \A j \in 1..Len(word) : LowerChar(CharAt(text, i + j)) = CharAt(word, j)

\* C21: a line the Meraki pattern matches is accepted as one record (parsed and
\* total_lines 1, nothing rejected), and its category and log_level are
\* given by the event type and the message alone: ip_flow_start and
\* ip_flow_end give network-flow / info, urls web-security / info, firewall
\* gives firewall with warning iff the message mentions deny or block,
\* events gives dhcp iff the message mentions dhcp, else system-events, with
\* error iff the message mentions error or fail, anything else other / info.
C21_MerakiLevelAndCategory ==
  (Passed("meraki") /\ raw.match.present) =>
    /\ verdict.kind = "record"
    /\ stats["A"].parsed = 1 /\ stats["A"].total_lines = 1
    /\ DOMAIN stats["A"].rejected = {}
    /\ LET e == raw.match.event_type
           m == raw.match.message
           rec == verdict.record
       IN  /\ rec.event_type = e /\ rec.message = m
           /\ rec.category =
                CASE e \in {"ip_flow_start", "ip_flow_end"} -> "network-flow"
                  [] e = "urls" -> "web-security"
                  [] e = "firewall" -> "firewall"
                  [] e = "events" -> IF Mentions(m, "dhcp") THEN "dhcp" ELSE "system-events"
                  [] OTHER -> "other"
           /\ rec.log_level =
                CASE e = "firewall" /\ (Mentions(m, "deny") \/ Mentions(m, "block")) -> "warning"
                  [] e = "events" /\ (Mentions(m, "error") \/ Mentions(m, "fail")) -> "error"
                  [] OTHER -> "info"

\* An events line about a DHCP failover: category dhcp, level error.
C21_Witness ==
  /\ Accepted("meraki")
  /\ raw.match.event_type = "events" /\ raw.match.message = "DHCP failover"
  /\ verdict.record.category = "dhcp" /\ verdict.record.log_level = "error"

\* The words of text: the runs of characters between whitespace, each as
\* <<first place, last place>>.
WordSpans(text) ==
  { <<i, Least({ j \in i..Len(text) : j = Len(text) \/ IsSpace(CharAt(text, j + 1)) })>> :
      i \in { p \in Inked(text) : p = 1 \/ IsSpace(CharAt(text, p - 1)) } }

\* The key=value / key:value token of a word: its first ":" or "=" that
\* follows a \w character and is not the end of the word splits it; the key
\* is the run of \w characters before the sign, the value the rest of the
\* word.
TokenOf(text, span) ==
  LET signs == { p \in (span[1] + 1)..(span[2] - 1) :
                   CharAt(text, p) \in {":", "="} /\ IsWordChar(CharAt(text, p - 1)) }
      sign == Least(signs)
      from == Least({ q \in span[1]..(sign - 1) :
                        \A x \in q..(sign - 1) : IsWordChar(CharAt(text, x)) })
  IN  IF signs = {} THEN None
      ELSE [present |-> TRUE, at |-> span[1], key |-> SubSeq(text, from, sign - 1),
            value |-> SubSeq(text, sign + 1, span[2])]

TokensOf(text) == { TokenOf(text, span) : span \in WordSpans(text) } \ {None}

MerakiHeaderFields ==
  {"syslog_month", "syslog_day", "syslog_time", "host_ip", "priority",
   "epoch_timestamp", "device_type", "event_type", "message", "log_level", "category"}

PaloAltoHeaderFields == {"syslog_host", "syslog_month", "syslog_day", "syslog_time"}

\* The field at place index (from 0) of a generated body.
FieldAt(index) == FieldValues[(index % Len(FieldValues)) + 1]

\* C23: a non-empty line without the syslog prefix is rejected as
\* missing-prefix; a line with the prefix whose body reads as k fields is
\* accepted, and its record holds the four header fields and exactly the
\* aliases of the places below k, each the trimmed field of its place or null
\* if that is empty; places 43, 48 to 51 and those beyond 115 have no alias.
C23_PaloAltoFieldsByPlace ==
  /\ (Passed("palo") /\ raw.text # "" /\ ~raw.match.present) =>
       verdict = Reject("missing-prefix")
  /\ (Passed("palo") /\ raw.match.present /\ ~raw.oversize) =>
       /\ verdict.kind = "record"
       /\ LET rec == verdict.record
              k == raw.match.count
              named == { index \in DOMAIN FIELD_ALIASES : index < k }
          IN  /\ DOMAIN rec = PaloAltoHeaderFields \cup { FIELD_ALIASES[index] : index \in named }
              /\ Cardinality(DOMAIN rec) = 4 + Cardinality(named)
              /\ \A index \in named :
                   rec[FIELD_ALIASES[index]] =
                     IF Strip(FieldAt(index)) = "" THEN Null ELSE <<Strip(FieldAt(index))>>
  /\ DOMAIN FIELD_ALIASES \cap ({43} \cup (48..51)) = {}
  /\ \A index \in DOMAIN FIELD_ALIASES : index <= 115

\* A body of 117 fields: the alias of place 115 is there, trimmed, the empty
\* field of place 2 is null, and the record has 4 + 66 fields.
C23_Witness ==
  /\ Accepted("palo")
  /\ raw.match.count = 117
  /\ verdict.record.app_tunnel_category = <<"a b">>
  /\ verdict.record.serial_number = Null
  /\ Cardinality(DOMAIN verdict.record) = 70

\* The first character of text that is not whitespace, "" if it has none.
FirstInk(text) ==
  IF Inked(text) = {} THEN "" ELSE CharAt(text, Least(Inked(text)))

\* C24: the UniFi loop body tests in the order empty, JSON-like, CEF
\* pattern, process/PID pattern: an empty line is rejected as "empty"; a
\* non-empty line whose first character after leading whitespace is one of
\* { } [ ] " is rejected as "json-data" (one line counted, none parsed, no
\* "format-mismatch"); "format-mismatch" is given only to a line that
\* neither pattern matches, and every such line that is neither empty nor
\* JSON-like gets it.
C24_UniFiCheckOrder ==
  Passed("unifi") =>
    LET json == FirstInk(raw.text) \in {"{", "}", "[", "]", "\""}
        mismatch == verdict = Reject("format-mismatch")
    IN  /\ raw.text = "" => verdict = Reject("empty")
        /\ (raw.text # "" /\ json) =>
             /\ verdict = Reject("json-data")
             /\ stats["A"].parsed = 0 /\ stats["A"].total_lines = 1
             /\ DOMAIN stats["A"].rejected = {"json-data"}
             /\ stats["A"].rejected["json-data"] = 1
        /\ mismatch => (~raw.cef.present /\ ~raw.match.present)
        /\ (raw.text # "" /\ ~json /\ ~raw.cef.present /\ ~raw.match.present)
             => (mismatch /\ DOMAIN stats["A"].rejected = {"format-mismatch"})
        /\ (raw.text # "" /\ ~json /\ (raw.cef.present \/ raw.match.present))
             => verdict.kind # "reject"

\* A line of a pretty-printed JSON payload, indented with a space and a tab,
\* was rejected as "json-data".
C24_Witness ==
  /\ Passed("unifi")
  /\ raw.text = " \t{\"name\": 1},"
  /\ verdict = Reject("json-data")
  /\ stats["A"].rejected = [r \in {"json-data"} |-> 1]

\* C25: every line CEF_PATTERN matches, whatever text without "|" its
\* severity field holds, is accepted as one record (parsed 1, nothing
\* rejected) with hostname "CEF", process and category "unifi-security", a
\* null pid and log_level "warning" when the severity is at least 5, "info"
\* otherwise; this holds also of a line the process/PID pattern matches too.
C25_CefLineGivesOneRecord ==
  (Passed("unifi") /\ raw.cef.present) =>
    /\ verdict.kind = "record"
    /\ stats["A"].parsed = 1 /\ stats["A"].total_lines = 1
    /\ DOMAIN stats["A"].rejected = {}
    /\ verdict.record.hostname = "CEF"
    /\ verdict.record.process = "unifi-security"
    /\ verdict.record.category = "unifi-security"
    /\ verdict.record.pid = Null
    /\ verdict.record.log_level =
         IF IsDecimal(raw.cef.severity) /\ IntOf(raw.cef.severity) >= 5
         THEN "warning" ELSE "info"

\* The same of the lines whose severity field int() reads.
C25_IntegerSeverities ==
  (Passed("unifi") /\ raw.cef.present /\ IsDecimal(raw.cef.severity)) =>
    /\ verdict.kind = "record"
    /\ stats["A"].parsed = 1 /\ stats["A"].total_lines = 1
    /\ verdict.record.hostname = "CEF"
    /\ verdict.record.process = "unifi-security"
    /\ verdict.record.category = "unifi-security"
    /\ verdict.record.pid = Null
    /\ verdict.record.log_level =
         IF IntOf(raw.cef.severity) >= 5 THEN "warning" ELSE "info"

\* A CEF line with the severity "High" has passed and left no record and no
\* count in the statistics.
C25_SeverityRaises ==
  /\ Passed("unifi") /\ raw.cef.present
  /\ raw.cef.severity = "High"
  /\ verdict = Raise("ValueError")
  /\ stats["A"].total_lines = 0

\* text mentions one of the words, whatever the case of its letters.
MentionsAny(text, words) == \E word \in words : Mentions(text, word)

\* text is word, whatever the case of its letters.
SameText(text, word) ==
  /\ Len(text) = Len(word)
  /\ \A j \in 1..Len(word) : LowerChar(CharAt(text, j)) = CharAt(word, j)

\* C26: in a record of the UniFi process/PID pattern the log level and the
\* category are given by the first rule that applies, letters compared
\* without case.  Level: an error word (error, failed, failure, critical,
\* fatal) gives error; else warn gives warning; else a lifecycle word
\* (starting, started, stopping, stopped, finished, succeeded) gives info;
\* else debug gives debug; else info.  Category: the process name
\* unifi-security gives unifi-security; else systemd gives system; else
\* kernel or dmesg kernel; else mcad, stamgr, wevent or ubios
\* unifi-controller; else hostapd or wpa wifi; else dhcp, dns or named
\* network-services; else ssh or login auth; else other.
C26_UniFiFirstMatchingRule ==
  (Accepted("unifi") /\ ~raw.cef.present) =>
    LET m == raw.match.message
        p == raw.match.process
        rec == verdict.record
    IN  /\ rec.message = m /\ rec.process = p
        /\ rec.log_level =
             CASE MentionsAny(m, {"error", "failed", "failure", "critical", "fatal"}) -> "error"
               [] Mentions(m, "warn") -> "warning"
               [] MentionsAny(m, {"starting", "started", "stopping", "stopped",
                                  "finished", "succeeded"}) -> "info"
               [] Mentions(m, "debug") -> "debug"
               [] OTHER -> "info"
        /\ rec.category =
             CASE SameText(p, "unifi-security") -> "unifi-security"
               [] Mentions(p, "systemd") -> "system"
               [] MentionsAny(p, {"kernel", "dmesg"}) -> "kernel"
               [] MentionsAny(p, {"mcad", "stamgr", "wevent", "ubios"}) -> "unifi-controller"
               [] MentionsAny(p, {"hostapd", "wpa"}) -> "wifi"
               [] MentionsAny(p, {"dhcp", "dns", "named"}) -> "network-services"
               [] MentionsAny(p, {"ssh", "login"}) -> "auth"
               [] OTHER -> "other"

\* systemd-logind said "Starting DEBUG": level info by the lifecycle rule,
\* category system by the systemd rule.
C26_Witness ==
  /\ Accepted("unifi") /\ ~raw.cef.present
  /\ raw.match.process = "systemd-logind"
  /\ raw.match.message = "Starting DEBUG"
  /\ verdict.record.log_level = "info"
  /\ verdict.record.category = "system"

\* C27: in a WatchGuard record the log level is warning when msg_id starts
\* with 3001-, 0207- or 020B- and error when it starts with 4001- or 7600-,
\* whatever the message says; when msg_id is absent or starts with none of
\* these, an error word in the message (error, failed, failure, critical,
\* fatal, down) gives error, else a warning word (warning, block, deny,
\* reject, unknown) gives warning, else info.  The category is looked up by
\* the whole process name, trimmed and without case, in the table firewall;
\* iked, sslvpn: vpn; dhcpd: network-services; sessiond: session-management;
\* loggerd, admd: system; sigd: security; portald, gwcd: gateway; certd,
\* link-mon: monitoring; any other name gives other.
C27_WatchGuardLevelAndCategory ==
  Accepted("watchguard") =>
    LET m == raw.match.message
        p == Strip(raw.match.process)
        id == IF raw.match.msg_id = Null THEN "" ELSE raw.match.msg_id[1]
        Begins(prefix) == Len(id) >= 5 /\ SubSeq(id, 1, 5) = prefix
        rec == verdict.record
    IN  /\ rec.msg_id = raw.match.msg_id /\ rec.process = raw.match.process
        /\ rec.log_level =
             CASE Begins("3001-") \/ Begins("0207-") \/ Begins("020B-") -> "warning"
               [] Begins("4001-") \/ Begins("7600-") -> "error"
               [] MentionsAny(m, {"error", "failed", "failure", "critical", "fatal", "down"})
                    -> "error"
               [] MentionsAny(m, {"warning", "block", "deny", "reject", "unknown"})
                    -> "warning"
               [] OTHER -> "info"
        /\ rec.category =
             CASE SameText(p, "firewall") -> "firewall"
               [] SameText(p, "iked") \/ SameText(p, "sslvpn") -> "vpn"
               [] SameText(p, "dhcpd") -> "network-services"
               [] SameText(p, "sessiond") -> "session-management"
               [] SameText(p, "loggerd") \/ SameText(p, "admd") -> "system"
               [] SameText(p, "sigd") -> "security"
               [] SameText(p, "portald") \/ SameText(p, "gwcd") -> "gateway"
               [] SameText(p, "certd") \/ SameText(p, "link-mon") -> "monitoring"
               [] OTHER -> "other"

\* A line with msg_id 3001-0001 whose message says "error Down" is a
\* warning.
C27_Witness ==
  /\ Accepted("watchguard")
  /\ raw.match.msg_id = <<"3001-0001">>
  /\ raw.match.message = "error Down"
  /\ verdict.record.log_level = "warning"
  /\ verdict.record.category = "system"

(***************************************************************************)
(* Properties of the sections of a report (specification SpecRun) and of   *)
(* the counts of the aggregations (specification SpecAgg)                  *)
(***************************************************************************)
\* C28: every section of an assembled report has at least one row, for each
\* of the four commands, every file with a parsed line, every --top and
\* every --noise-threshold: an aggregation with nothing to show, the Palo
\* Alto application characteristics and a section cut by the limit
\* included, is left out of the report.
C28_NoSectionWithoutRows ==
  Assembled =>
    \A i \in 1..Len(report.sections) : Len(report.sections[i].rows) >= 1

\* The Palo Alto command with --top 5 on records that hold no application
\* characteristics: the report ends with a section of that title and no
\* rows.
C28_EmptyCharacteristics ==
  /\ Assembled /\ variant["A"] = "palo" /\ options.top = 5
  /\ Len(report.sections) > 0
  /\ report.sections[Len(report.sections)].columns = <<"Characteristic", "Events">>
  /\ report.sections[Len(report.sections)].rows = << >>

\* A command with --top 0: the top-count sections are there, without rows.
C28_EmptyByLimit ==
  /\ Assembled /\ options.top = 0
  /\ \E i \in 1..Len(report.sections) :
       /\ report.sections[i].columns[2] = "Events"
       /\ report.sections[i].rows = << >>

\* The sections of the report that collect_top_counts and
\* collect_noise_candidates gave.
GroupSections ==
  { i \in 1..Len(report.sections) :
      /\ report.sections[i].columns[1] \notin {"Minute", "Characteristic"} }

\* C29: in the top-count and noise-candidate sections of a report a row is
\* labelled "<missing>" exactly when its group's key is null, and two rows
\* of a section never have the same label; this holds also where the key is
\* an empty text or the integer 0, as a destination port can be.
C29_MissingLabelOnlyForNull ==
  Assembled =>
    \A s \in GroupSections :
      LET rs == report.sections[s].rows
      IN  /\ \A i \in 1..Len(rs) : (rs[i].label = "<missing>") <=> (rs[i].key = Null)
          /\ \A i, j \in 1..Len(rs) : rs[i].label = rs[j].label => i = j

\* The Meraki command on a flow without a dport and a flow with dport=0:
\* the section by dport has two rows, both labelled "<missing>".
C29_PortZeroIsMissing ==
  /\ Assembled /\ variant["A"] = "meraki"
  /\ \E s \in GroupSections :
       LET rs == report.sections[s].rows
       IN  /\ report.sections[s].columns[1] = "Dport"
           /\ Len(rs) = 2
           /\ {rs[1].key, rs[2].key} = {Null, <<0>>}
           /\ rs[1].label = "<missing>" /\ rs[2].label = "<missing>"

\* The sum of the events of a sequence of groups or rows.
RECURSIVE EventsTotal(_)
EventsTotal(rs) ==
  IF rs = << >> THEN 0 ELSE rs[Len(rs)].events + EventsTotal(SubSeq(rs, 1, Len(rs) - 1))

\* The rows of the section returned, none if there is no section.
ResultRows == IF result.present THEN result.rows ELSE << >>

\* The rows of the table whose minute bucket is not null.
Bucketed == { i \in 1..Height(table) : table.rows[i][BucketColumn] # Null }

\* C30: the aggregations count every row once.  The events of the rows of
\* collect_top_counts sum to the number of rows of the table when top is at
\* least the number of distinct values, null counted as one; the events of
\* the groups collect_noise_candidates computes before its filter sum to
\* the number of rows (so the shares events / rows add up to the whole),
\* and so do the rows returned when the filter drops no group; the events
\* of the rows of collect_trend sum
\* to the number of rows with a minute bucket when top is at least the
\* number of buckets.
C30_EveryRowCountedOnce ==
  /\ (TopCall /\ HasColumn /\ call.top >= Cardinality(Groups)) =>
       EventsTotal(ResultRows) = Height(table)
  /\ (NoiseCall /\ HasColumn /\ Height(table) > 0) =>
       /\ \A order \in GroupOrders(table, GroupColumn) :
            EventsTotal(NoiseGroups(table, GroupColumn, order)) = Height(table)
       /\ (result.present /\ Returned = Groups) =>
            EventsTotal(ResultRows) = Height(table)
  /\ (TrendCall /\ HasBuckets /\ call.top >= Cardinality(Buckets(table))) =>
       EventsTotal(ResultRows) = Cardinality(Bucketed)

\* collect_top_counts with top 5 on three rows, one of them with a null
\* key: two groups, three events.
C30_Witness ==
  /\ TopCall /\ call.top = 5
  /\ Height(table) = 3 /\ HasColumn
  /\ Cardinality(Groups) = 2 /\ Null \in Groups
  /\ result.present /\ Len(result.rows) = 2
  /\ EventsTotal(result.rows) = 3

=============================================================================
